---- MODULE Spec2Model ----
(***************************************************************************)
(* Model of the URN value type of go-platform (pkg/net/v1/urn.go).         *)
(*                                                                         *)
(* A Go string is a sequence of one-character strings, so that             *)
(* strings.Split and fmt.Sprintf are computed character by character.      *)
(* A Go error is the chain of its messages, outermost first: errors.New    *)
(* is a chain of one message, fmt.Errorf with %w puts a message in front   *)
(* of the wrapped chain, fmt.Errorf without %w starts a new chain, and nil *)
(* is the empty chain.                                                     *)
(***************************************************************************)
EXTENDS Naturals, Sequences, FiniteSets, TLC

VARIABLES op, in, out, err, u, res

vars == <<op, in, out, err, u, res>>

(***************************************************************************)
(* Constants of the package.                                               *)
(***************************************************************************)
Scheme == <<"u", "r", "n">>

SecureMessaging == <<"s", "m">>

urnParts == 4

urnDelimiter == <<":">>

EntityTypeUser == <<"u", "s", "e", "r">>

ErrInvalidFormat == <<"invalid URN format">>

\* The namespaces New and Parse let through (namespace != SecureMessaging).
AcceptedNamespaces == {SecureMessaging}

(***************************************************************************)
(* Errors.                                                                 *)
(***************************************************************************)
Nil == <<>>

\* fmt.Errorf(msg) with no %w verb: a fresh error, nothing wrapped.
Errorf(msg) == <<msg>>

\* fmt.Errorf(msg, e) with the %w verb: msg in front of the chain of e.
ErrorfW(msg, e) == <<msg>> \o e

\* errors.Is(e, target): target is e or one of the errors e wraps.
ErrorsIs(e, target) ==
    /\ e # Nil
    /\ \E i \in 1..Len(e) : SubSeq(e, i, Len(e)) = target

(***************************************************************************)
(* The URN value.                                                          *)
(***************************************************************************)
MkURN(s, ns, et, id) ==
    [scheme |-> s, namespace |-> ns, entityType |-> et, entityID |-> id]

\* URN{}
ZeroURN == MkURN(<<>>, <<>>, <<>>, <<>>)

IsZero(x) ==
    /\ x.scheme = <<>>
    /\ x.namespace = <<>>
    /\ x.entityType = <<>>
    /\ x.entityID = <<>>

Namespace(x) == x.namespace

EntityType(x) == x.entityType

EntityID(x) == x.entityID

(***************************************************************************)
(* New                                                                     *)
(***************************************************************************)
\* New without the check of entityID.
NewNoIDCheck(namespace, entityType, entityID) ==
    IF namespace = <<>> \/ entityType = <<>>
    THEN [urn |-> ZeroURN, err |-> ErrInvalidFormat]
    ELSE IF namespace # SecureMessaging
    THEN [urn |-> ZeroURN, err |-> Errorf("invalid namespace: expected 'sm', got '%s'")]
    ELSE [urn |-> MkURN(Scheme, namespace, entityType, entityID), err |-> Nil]

\* New with entityType and entityID assigned to each other's field.
NewSwappedFields(namespace, entityType, entityID) ==
    IF namespace = <<>> \/ entityType = <<>> \/ entityID = <<>>
    THEN [urn |-> ZeroURN, err |-> ErrInvalidFormat]
    ELSE IF namespace # SecureMessaging
    THEN [urn |-> ZeroURN, err |-> Errorf("invalid namespace: expected 'sm', got '%s'")]
    ELSE [urn |-> MkURN(Scheme, namespace, entityID, entityType), err |-> Nil]

\* New with no check of the namespace.
NewAnyNamespace(namespace, entityType, entityID) ==
    IF namespace = <<>> \/ entityType = <<>> \/ entityID = <<>>
    THEN [urn |-> ZeroURN, err |-> ErrInvalidFormat]
    ELSE [urn |-> MkURN(Scheme, namespace, entityType, entityID), err |-> Nil]

New(namespace, entityType, entityID) ==
    IF namespace = <<>> \/ entityType = <<>> \/ entityID = <<>>
    THEN [urn |-> ZeroURN, err |-> ErrInvalidFormat]
    ELSE IF namespace # SecureMessaging
    THEN [urn |-> ZeroURN, err |-> Errorf("invalid namespace: expected 'sm', got '%s'")]
    ELSE [urn |-> MkURN(Scheme, namespace, entityType, entityID), err |-> Nil]

(***************************************************************************)
(* strings.Split                                                           *)
(***************************************************************************)
\* s holds the delimiter: strings.Split(s, urnDelimiter) has more than one part.
HasDelim(s) == \E i \in 1..Len(s) : <<s[i]>> = urnDelimiter

\* strings.Index(s, sep), 1-based; 0 when sep does not occur in s.
Index(s, sep) ==
    LET hits == {i \in 1..Len(s) : /\ i + Len(sep) - 1 <= Len(s)
                                   /\ SubSeq(s, i, i + Len(sep) - 1) = sep}
    IN  IF hits = {} THEN 0
        ELSE CHOOSE i \in hits : \A j \in hits : i <= j

RECURSIVE Split(_, _)
\* strings.Split(s, sep) for a non-empty sep.
Split(s, sep) ==
    LET i == Index(s, sep)
    IN  IF i = 0 THEN <<s>>
        ELSE <<SubSeq(s, 1, i - 1)>> \o Split(SubSeq(s, i + Len(sep), Len(s)), sep)

(***************************************************************************)
(* Parse                                                                   *)
(***************************************************************************)
\* Parse returning the parts it has read along with the error for an empty entity ID.
ParsePartialOnError(s) ==
    IF s = <<>> THEN [urn |-> ZeroURN, err |-> Nil]
    ELSE
    LET parts == Split(s, urnDelimiter)
    IN  IF Len(parts) # urnParts
        THEN IF Len(parts) = 1
             THEN New(SecureMessaging, EntityTypeUser, s)
             ELSE [urn |-> ZeroURN,
                   err |-> ErrorfW("%w: expected %d parts, got %d", ErrInvalidFormat)]
        ELSE IF parts[1] # Scheme
        THEN [urn |-> ZeroURN, err |-> Errorf("invalid scheme: expected 'urn', got '%s'")]
        ELSE IF parts[2] # SecureMessaging
        THEN [urn |-> ZeroURN, err |-> Errorf("invalid namespace: expected 'sm', got '%s'")]
        ELSE IF parts[3] = <<>>
        THEN [urn |-> ZeroURN, err |-> Errorf("entity type must not be empty")]
        ELSE IF parts[4] = <<>>
        THEN [urn |-> MkURN(parts[1], parts[2], parts[3], parts[4]),
              err |-> Errorf("entity ID must not be empty")]
        ELSE [urn |-> MkURN(parts[1], parts[2], parts[3], parts[4]), err |-> Nil]

\* Parse without the migration of legacy identifiers: every part count but
\* urnParts is an error.
ParseNoLegacy(s) ==
    IF s = <<>> THEN [urn |-> ZeroURN, err |-> Nil]
    ELSE
    LET parts == Split(s, urnDelimiter)
    IN  IF Len(parts) # urnParts
        THEN [urn |-> ZeroURN,
              err |-> ErrorfW("%w: expected %d parts, got %d", ErrInvalidFormat)]
        ELSE IF parts[1] # Scheme
        THEN [urn |-> ZeroURN, err |-> Errorf("invalid scheme: expected 'urn', got '%s'")]
        ELSE IF parts[2] # SecureMessaging
        THEN [urn |-> ZeroURN, err |-> Errorf("invalid namespace: expected 'sm', got '%s'")]
        ELSE IF parts[3] = <<>>
        THEN [urn |-> ZeroURN, err |-> Errorf("entity type must not be empty")]
        ELSE IF parts[4] = <<>>
        THEN [urn |-> ZeroURN, err |-> Errorf("entity ID must not be empty")]
        ELSE [urn |-> MkURN(parts[1], parts[2], parts[3], parts[4]), err |-> Nil]

\* Parse rejecting only the texts of fewer than urnParts parts, and reading
\* the first urnParts parts of a longer one.
ParseFirstFour(s) ==
    IF s = <<>> THEN [urn |-> ZeroURN, err |-> Nil]
    ELSE
    LET parts == Split(s, urnDelimiter)
    IN  IF Len(parts) < urnParts
        THEN IF Len(parts) = 1
             THEN New(SecureMessaging, EntityTypeUser, s)
             ELSE [urn |-> ZeroURN,
                   err |-> ErrorfW("%w: expected %d parts, got %d", ErrInvalidFormat)]
        ELSE IF parts[1] # Scheme
        THEN [urn |-> ZeroURN, err |-> Errorf("invalid scheme: expected 'urn', got '%s'")]
        ELSE IF parts[2] # SecureMessaging
        THEN [urn |-> ZeroURN, err |-> Errorf("invalid namespace: expected 'sm', got '%s'")]
        ELSE IF parts[3] = <<>>
        THEN [urn |-> ZeroURN, err |-> Errorf("entity type must not be empty")]
        ELSE IF parts[4] = <<>>
        THEN [urn |-> ZeroURN, err |-> Errorf("entity ID must not be empty")]
        ELSE [urn |-> MkURN(parts[1], parts[2], parts[3], parts[4]), err |-> Nil]

\* Parse taking a legacy ID for the entity type as well as for the ID.
ParseLegacyAsType(s) ==
    IF s = <<>> THEN [urn |-> ZeroURN, err |-> Nil]
    ELSE
    LET parts == Split(s, urnDelimiter)
    IN  IF Len(parts) # urnParts
        THEN IF Len(parts) = 1
             THEN New(SecureMessaging, s, s)
             ELSE [urn |-> ZeroURN,
                   err |-> ErrorfW("%w: expected %d parts, got %d", ErrInvalidFormat)]
        ELSE IF parts[1] # Scheme
        THEN [urn |-> ZeroURN, err |-> Errorf("invalid scheme: expected 'urn', got '%s'")]
        ELSE IF parts[2] # SecureMessaging
        THEN [urn |-> ZeroURN, err |-> Errorf("invalid namespace: expected 'sm', got '%s'")]
        ELSE IF parts[3] = <<>>
        THEN [urn |-> ZeroURN, err |-> Errorf("entity type must not be empty")]
        ELSE IF parts[4] = <<>>
        THEN [urn |-> ZeroURN, err |-> Errorf("entity ID must not be empty")]
        ELSE [urn |-> MkURN(parts[1], parts[2], parts[3], parts[4]), err |-> Nil]

Parse(s) ==
    IF s = <<>> THEN [urn |-> ZeroURN, err |-> Nil]
    ELSE
    LET parts == Split(s, urnDelimiter)
    IN  IF Len(parts) # urnParts
        THEN IF Len(parts) = 1
             THEN New(SecureMessaging, EntityTypeUser, s)
             ELSE [urn |-> ZeroURN,
                   err |-> ErrorfW("%w: expected %d parts, got %d", ErrInvalidFormat)]
        ELSE IF parts[1] # Scheme
        THEN [urn |-> ZeroURN, err |-> Errorf("invalid scheme: expected 'urn', got '%s'")]
        ELSE IF parts[2] # SecureMessaging
        THEN [urn |-> ZeroURN, err |-> Errorf("invalid namespace: expected 'sm', got '%s'")]
        ELSE IF parts[3] = <<>>
        THEN [urn |-> ZeroURN, err |-> Errorf("entity type must not be empty")]
        ELSE IF parts[4] = <<>>
        THEN [urn |-> ZeroURN, err |-> Errorf("entity ID must not be empty")]
        ELSE [urn |-> MkURN(parts[1], parts[2], parts[3], parts[4]), err |-> Nil]

(***************************************************************************)
(* String                                                                  *)
(***************************************************************************)
\* String with entityType and entityID printed in each other's place.
StringSwapped(x) ==
    IF IsZero(x) THEN <<>>
    ELSE x.scheme \o <<":">> \o x.namespace \o <<":">> \o x.entityID
                  \o <<":">> \o x.entityType

\* String without the check for the zero value.
StringNoZeroCheck(x) ==
    x.scheme \o <<":">> \o x.namespace \o <<":">> \o x.entityType
             \o <<":">> \o x.entityID

\* String with the namespace printed in front of the scheme.
StringNamespaceFirst(x) ==
    IF IsZero(x) THEN <<>>
    ELSE x.namespace \o <<":">> \o x.scheme \o <<":">> \o x.entityType
                     \o <<":">> \o x.entityID

\* String without the entityType.
StringWithoutType(x) ==
    IF IsZero(x) THEN <<>>
    ELSE x.scheme \o <<":">> \o x.namespace \o <<":">> \o x.entityID

String(x) ==
    IF IsZero(x) THEN <<>>
    ELSE x.scheme \o <<":">> \o x.namespace \o <<":">> \o x.entityType
                  \o <<":">> \o x.entityID

(***************************************************************************)
(* JSON.  A JSON document is its bytes.  Of the characters encoding/json   *)
(* escapes, the texts of the model hold the quotation mark, written \" in  *)
(* a JSON string; the backslash is written \\.                             *)
(***************************************************************************)
JSONNull == <<"n", "u", "l", "l">>

Quote == "\""

Backslash == "\\"

RECURSIVE jsonEscape(_)
\* The body of the JSON string json.Marshal writes for s.
jsonEscape(s) ==
    IF s = <<>> THEN <<>>
    ELSE IF Head(s) \in {Quote, Backslash}
    THEN <<Backslash, Head(s)>> \o jsonEscape(Tail(s))
    ELSE <<Head(s)>> \o jsonEscape(Tail(s))

\* json.Marshal of a Go string without the escaping.
jsonMarshalStringRaw(s) == <<Quote>> \o s \o <<Quote>>

\* json.Marshal of a Go string.
jsonMarshalString(s) == <<Quote>> \o jsonEscape(s) \o <<Quote>>

RECURSIVE jsonUnescape(_)
\* The text a JSON string body stands for; not ok when the body holds a
\* bare quotation mark or a backslash with nothing to escape.
jsonUnescape(b) ==
    IF b = <<>> THEN [ok |-> TRUE, s |-> <<>>]
    ELSE IF Head(b) = Quote THEN [ok |-> FALSE, s |-> <<>>]
    ELSE IF Head(b) = Backslash
    THEN IF Len(b) >= 2 /\ b[2] \in {Quote, Backslash}
         THEN LET r == jsonUnescape(SubSeq(b, 3, Len(b)))
              IN  [ok |-> r.ok, s |-> <<b[2]>> \o r.s]
         ELSE [ok |-> FALSE, s |-> <<>>]
    ELSE LET r == jsonUnescape(Tail(b))
         IN  [ok |-> r.ok, s |-> <<Head(b)>> \o r.s]

IsJSONString(data) ==
    /\ Len(data) >= 2
    /\ data[1] = Quote
    /\ data[Len(data)] = Quote
    /\ jsonUnescape(SubSeq(data, 2, Len(data) - 1)).ok

\* json.Unmarshal(data, &s) for a fresh s of type string: null leaves s
\* empty, a JSON string is stored, anything else is an error.
jsonUnmarshalString(data) ==
    IF data = JSONNull THEN [s |-> <<>>, err |-> Nil]
    ELSE IF IsJSONString(data)
    THEN [s |-> jsonUnescape(SubSeq(data, 2, Len(data) - 1)).s, err |-> Nil]
    ELSE [s |-> <<>>, err |-> Errorf("json: cannot unmarshal into Go value of type string")]

\* MarshalJSON without the check for the zero value.
MarshalJSONNoZeroCheck(x) ==
    [data |-> jsonMarshalString(String(x)), err |-> Nil]

MarshalJSON(x) ==
    IF IsZero(x) THEN [data |-> JSONNull, err |-> Nil]
    ELSE [data |-> jsonMarshalString(String(x)), err |-> Nil]

\* UnmarshalJSON leaving the receiver as it is for null and the empty string.
UnmarshalJSONEmptyKeeps(recv, data) ==
    LET d == jsonUnmarshalString(data)
    IN  IF d.err # Nil
        THEN [u |-> recv,
              err |-> ErrorfW("URN should be a string, but got %s: %w", d.err)]
        ELSE IF d.s = <<>>
        THEN [u |-> recv, err |-> Nil]
        ELSE LET p == Parse(d.s)
             IN  IF p.err # Nil
                 THEN [u |-> recv, err |-> p.err]
                 ELSE [u |-> p.urn, err |-> Nil]

\* UnmarshalJSON giving Parse only the strings that begin with "urn:" and
\* taking every other non-empty string for a legacy identifier.
UnmarshalJSONPrefix(recv, data) ==
    LET d == jsonUnmarshalString(data)
        prefix == Scheme \o urnDelimiter
    IN  IF d.err # Nil
        THEN [u |-> recv,
              err |-> ErrorfW("URN should be a string, but got %s: %w", d.err)]
        ELSE IF Len(d.s) >= Len(prefix) /\ SubSeq(d.s, 1, Len(prefix)) = prefix
        THEN LET p == Parse(d.s)
             IN  IF p.err # Nil
                 THEN [u |-> recv, err |-> p.err]
                 ELSE [u |-> p.urn, err |-> Nil]
        ELSE IF d.s = <<>>
        THEN [u |-> ZeroURN, err |-> Nil]
        ELSE LET n == New(SecureMessaging, EntityTypeUser, d.s)
             IN  IF n.err # Nil
                 THEN [u |-> recv, err |-> n.err]
                 ELSE [u |-> n.urn, err |-> Nil]

\* The receiver after the call and the error returned.
UnmarshalJSON(recv, data) ==
    LET d == jsonUnmarshalString(data)
    IN  IF d.err # Nil
        THEN [u |-> recv,
              err |-> ErrorfW("URN should be a string, but got %s: %w", d.err)]
        ELSE IF d.s = <<>>
        THEN [u |-> ZeroURN, err |-> Nil]
        ELSE LET p == Parse(d.s)
             IN  IF p.err # Nil
                 THEN [u |-> recv, err |-> p.err]
                 ELSE [u |-> p.urn, err |-> Nil]

(***************************************************************************)
(* Protobuf.  A *netv1.UrnPb is a record with a presence flag: the nil     *)
(* pointer is the record that is not present.                              *)
(***************************************************************************)
UrnPb(ns, et, id) ==
    [present |-> TRUE, Namespace |-> ns, EntityType |-> et, EntityId |-> id]

NilPb == [present |-> FALSE, Namespace |-> <<>>, EntityType |-> <<>>, EntityId |-> <<>>]

\* ToProto without the check for the zero value.
ToProtoNoZeroCheck(native) ==
    UrnPb(Namespace(native), EntityType(native), EntityID(native))

\* ToProto with entityType and entityID in each other's field.
ToProtoSwapped(native) ==
    IF IsZero(native) THEN NilPb
    ELSE UrnPb(Namespace(native), EntityID(native), EntityType(native))

ToProto(native) ==
    IF IsZero(native) THEN NilPb
    ELSE UrnPb(Namespace(native), EntityType(native), EntityID(native))

\* FromProto building the URN from the record without New.
FromProtoNoValidation(proto) ==
    IF ~proto.present THEN [urn |-> ZeroURN, err |-> Nil]
    ELSE [urn |-> MkURN(Scheme, proto.Namespace, proto.EntityType, proto.EntityId),
          err |-> Nil]

FromProto(proto) ==
    IF ~proto.present THEN [urn |-> ZeroURN, err |-> Nil]
    ELSE LET n == New(proto.Namespace, proto.EntityType, proto.EntityId)
         IN  IF n.err # Nil
             THEN [urn |-> ZeroURN,
                   err |-> ErrorfW("failed to convert proto to native URN: %w", n.err)]
             ELSE [urn |-> n.urn, err |-> Nil]

(***************************************************************************)
(* Inputs.                                                                 *)
(***************************************************************************)
\* The largest number of ":"-separated parts of a text given to Parse.
MaxParts == 5

\* The namespace the tests of the envelope and of the notification use.
Contacts == <<"c", "o", "n", "t", "a", "c", "t", "s">>

\* The words the texts are made of.
Words == {<<>>, Scheme, SecureMessaging, EntityTypeUser, Contacts, <<"a">>}

RECURSIVE JoinWords(_)
JoinWords(ws) ==
    IF Len(ws) = 1 THEN ws[1]
    ELSE ws[1] \o urnDelimiter \o JoinWords(Tail(ws))

\* The words of the texts that have more than urnParts parts.
LongWords == {Scheme, SecureMessaging, <<"a">>}

\* Every text of one to urnParts words joined by the delimiter.
ShortTexts == {JoinWords(ws) : ws \in UNION {[1..k -> Words] : k \in 1..urnParts}}

\* Texts of more than urnParts and at most MaxParts parts.
LongTexts ==
    {JoinWords(ws) : ws \in UNION {[1..k -> LongWords] : k \in (urnParts + 1)..MaxParts}}

Texts == ShortTexts \cup LongTexts

\* The components given to New and the fields of a UrnPb: the words, a
\* word with the delimiter in it and a word with a quotation mark in it.
ArgWords == Words \cup {<<"a", ":", "a">>, <<"a", Quote>>}

\* JSON documents that are neither a string nor null.
NonStrings == {<<"1", "2", "3">>, <<"{", "}">>, <<"[", "]">>, <<"t", "r", "u", "e">>}

\* A JSON string with an escaped quotation mark, and a text between
\* quotation marks that is no JSON string.
QuotedInputs == {jsonMarshalString(<<"a", Quote>>), <<Quote, "a", Quote, Quote>>}

JSONInputs ==
    {JSONNull} \cup {jsonMarshalString(t) : t \in Texts} \cup QuotedInputs \cup NonStrings

NoInput ==
    [s |-> <<>>, ns |-> <<>>, et |-> <<>>, id |-> <<>>, present |-> FALSE,
     recv |-> ZeroURN]

\* The value of res when the call at hand returns a URN or an error only.
NoResult == <<>>

(***************************************************************************)
(* The envelope and the queued message (pkg/secure/v1, pkg/routing/v1).    *)
(* A pointer is a record with a presence flag, nil being the record that   *)
(* is not present; a []byte is a sequence of numbers.                      *)
(***************************************************************************)
SecureEnvelopePb(rid, data, key, sig) ==
    [present |-> TRUE, RecipientId |-> rid, EncryptedData |-> data,
     EncryptedSymmetricKey |-> key, Signature |-> sig]

NilSecureEnvelopePb ==
    [present |-> FALSE, RecipientId |-> <<>>, EncryptedData |-> <<>>,
     EncryptedSymmetricKey |-> <<>>, Signature |-> <<>>]

SecureEnvelope(rid, data, key, sig) ==
    [present |-> TRUE, RecipientID |-> rid, EncryptedData |-> data,
     EncryptedSymmetricKey |-> key, Signature |-> sig]

NilSecureEnvelope ==
    [present |-> FALSE, RecipientID |-> ZeroURN, EncryptedData |-> <<>>,
     EncryptedSymmetricKey |-> <<>>, Signature |-> <<>>]

\* secure.FromProto
SecureFromProto(proto) ==
    IF ~proto.present THEN [env |-> NilSecureEnvelope, err |-> Nil]
    ELSE LET p == Parse(proto.RecipientId)
         IN  IF p.err # Nil
             THEN [env |-> NilSecureEnvelope,
                   err |-> ErrorfW("failed to parse recipient id: %w", p.err)]
             ELSE [env |-> SecureEnvelope(p.urn, proto.EncryptedData,
                                          proto.EncryptedSymmetricKey, proto.Signature),
                   err |-> Nil]

QueuedMessagePb(id, env) == [present |-> TRUE, Id |-> id, Envelope |-> env]

NilQueuedMessagePb == [present |-> FALSE, Id |-> <<>>, Envelope |-> NilSecureEnvelopePb]

QueuedMessage(id, env) == [present |-> TRUE, ID |-> id, Envelope |-> env]

NilQueuedMessage == [present |-> FALSE, ID |-> <<>>, Envelope |-> NilSecureEnvelope]

NestedEnvelopeMsg == "failed to parse nested envelope from proto: %w"

\* routing.FromProto
RoutingFromProto(proto) ==
    IF ~proto.present THEN [msg |-> NilQueuedMessage, err |-> Nil]
    ELSE LET e == SecureFromProto(proto.Envelope)
         IN  IF e.err # Nil
             THEN [msg |-> NilQueuedMessage, err |-> ErrorfW(NestedEnvelopeMsg, e.err)]
             ELSE [msg |-> QueuedMessage(proto.Id, e.env), err |-> Nil]

\* The recipient id of the test of an invalid nested envelope.
NotAValidURN ==
    <<"n", "o", "t", "-", "a", "-", "v", "a", "l", "i", "d", "-", "u", "r", "n">>

\* The recipient ids of the records: empty, legacy, canonical, and one for
\* each way Parse has of rejecting a text.
RecipientIds ==
    {<<>>, NotAValidURN, <<"a">>,
     JoinWords(<<Scheme, SecureMessaging, EntityTypeUser, <<"a">>>>),
     JoinWords(<<Scheme, Contacts, EntityTypeUser, <<"a">>>>),
     JoinWords(<<SecureMessaging, SecureMessaging, EntityTypeUser, <<"a">>>>),
     JoinWords(<<Scheme, SecureMessaging, <<>>, <<"a">>>>),
     JoinWords(<<Scheme, SecureMessaging, EntityTypeUser, <<>>>>),
     JoinWords(<<Scheme, SecureMessaging, EntityTypeUser>>),
     JoinWords(<<Scheme, SecureMessaging, EntityTypeUser, <<"a">>, <<"a">>>>)}

ByteStrings == {<<>>, <<1, 2, 3>>}

MessageIds == {<<>>, <<"m">>}

SecureEnvelopePbs ==
    {NilSecureEnvelopePb} \cup
    {SecureEnvelopePb(r, d, k, g) :
        r \in RecipientIds, d \in ByteStrings, k \in ByteStrings, g \in ByteStrings}

QueuedMessagePbs ==
    {NilQueuedMessagePb} \cup
    {QueuedMessagePb(i, e) : i \in MessageIds, e \in SecureEnvelopePbs}

(***************************************************************************)
(* Slices.  A slice is its elements and whether it is nil: the nil slice   *)
(* and the empty slice made by make([]T, 0) are different values.          *)
(***************************************************************************)
NilSlice == [isNil |-> TRUE, elems |-> <<>>]

\* make([]T, len(elems)) with every element assigned.
MakeSlice(elems) == [isNil |-> FALSE, elems |-> elems]

\* The lowest number of a set of indices.
Lowest(S) == CHOOSE i \in S : \A j \in S : i <= j

\* body(v) for the value v of a call whose results are used more than once.
With(v, body(_)) == body(v)

\* for i := range s { r[i] = f(s[i]) }
MapSeq(f(_), s) == IF s = <<>> THEN <<>> ELSE <<>> \o [i \in 1..Len(s) |-> f(s[i])]

(***************************************************************************)
(* The facades of pkg/secure/v1 and pkg/routing/v1: ToProto and the lists. *)
(***************************************************************************)
\* secure.ToProto leaving the signature out of the record.
SecureToProtoNoSignature(native) ==
    IF ~native.present THEN NilSecureEnvelopePb
    ELSE SecureEnvelopePb(String(native.RecipientID), native.EncryptedData,
                          native.EncryptedSymmetricKey, <<>>)

\* secure.ToProto writing the entity ID alone as the recipient id.
SecureToProtoEntityIDOnly(native) ==
    IF ~native.present THEN NilSecureEnvelopePb
    ELSE SecureEnvelopePb(EntityID(native.RecipientID), native.EncryptedData,
                          native.EncryptedSymmetricKey, native.Signature)

\* secure.ToProto
SecureToProto(native) ==
    IF ~native.present THEN NilSecureEnvelopePb
    ELSE SecureEnvelopePb(String(native.RecipientID), native.EncryptedData,
                          native.EncryptedSymmetricKey, native.Signature)

\* routing.ToProto
RoutingToProto(native) ==
    IF ~native.present THEN NilQueuedMessagePb
    ELSE QueuedMessagePb(native.ID, SecureToProto(native.Envelope))

SecureEnvelopeList(envelopes) == [present |-> TRUE, Envelopes |-> envelopes]

NilSecureEnvelopeList == [present |-> FALSE, Envelopes |-> NilSlice]

SecureEnvelopeListPb(envelopes) == [present |-> TRUE, Envelopes |-> envelopes]

NilSecureEnvelopeListPb == [present |-> FALSE, Envelopes |-> NilSlice]

\* secure.ListToProto
SecureListToProto(native) ==
    IF ~native.present THEN NilSecureEnvelopeListPb
    ELSE SecureEnvelopeListPb(MakeSlice(MapSeq(SecureToProto, native.Envelopes.elems)))

\* The error of secure.ListFromProto for the element at Go index i.
EnvelopeIndexMsg(i) == "failed to parse envelope at index " \o ToString(i) \o ": %w"

RECURSIVE SecureListFromProtoLastErrorLoop(_, _, _, _)
SecureListFromProtoLastErrorLoop(pEnvs, i, nativeEnvelopes, last) ==
    IF i > Len(pEnvs)
    THEN IF last = Nil
         THEN [list |-> SecureEnvelopeList(MakeSlice(nativeEnvelopes)), err |-> Nil]
         ELSE [list |-> NilSecureEnvelopeList, err |-> last]
    ELSE With(SecureFromProto(pEnvs[i]), LAMBDA r :
             IF r.err # Nil
             THEN SecureListFromProtoLastErrorLoop(
                      pEnvs, i + 1, nativeEnvelopes,
                      ErrorfW(EnvelopeIndexMsg(i - 1), r.err))
             ELSE SecureListFromProtoLastErrorLoop(
                      pEnvs, i + 1, Append(nativeEnvelopes, r.env), last))

\* secure.ListFromProto going through every element and reporting the last
\* one that fails.
SecureListFromProtoLastError(proto) ==
    IF ~proto.present THEN [list |-> NilSecureEnvelopeList, err |-> Nil]
    ELSE SecureListFromProtoLastErrorLoop(proto.Envelopes.elems, 1, <<>>, Nil)

RECURSIVE SecureListFromProtoLoop(_, _, _)
\* The loop of secure.ListFromProto from the element i on, nativeEnvelopes
\* being what the elements before it were converted to.
SecureListFromProtoLoop(pEnvs, i, nativeEnvelopes) ==
    IF i > Len(pEnvs)
    THEN [list |-> SecureEnvelopeList(MakeSlice(nativeEnvelopes)), err |-> Nil]
    ELSE With(SecureFromProto(pEnvs[i]), LAMBDA r :
             IF r.err # Nil
             THEN [list |-> NilSecureEnvelopeList,
                   err |-> ErrorfW(EnvelopeIndexMsg(i - 1), r.err)]
             ELSE SecureListFromProtoLoop(pEnvs, i + 1, Append(nativeEnvelopes, r.env)))

\* secure.ListFromProto
SecureListFromProto(proto) ==
    IF ~proto.present THEN [list |-> NilSecureEnvelopeList, err |-> Nil]
    ELSE SecureListFromProtoLoop(proto.Envelopes.elems, 1, <<>>)

QueuedMessageList(messages) == [present |-> TRUE, Messages |-> messages]

NilQueuedMessageList == [present |-> FALSE, Messages |-> NilSlice]

QueuedMessageListPb(messages) == [present |-> TRUE, Messages |-> messages]

NilQueuedMessageListPb == [present |-> FALSE, Messages |-> NilSlice]

\* routing.ListToProto filling the record from the last message to the first.
RoutingListToProtoReversed(native) ==
    IF ~native.present THEN NilQueuedMessageListPb
    ELSE LET es == native.Messages.elems
             rev == IF es = <<>> THEN <<>>
                    ELSE [i \in 1..Len(es) |-> es[Len(es) + 1 - i]]
         IN  QueuedMessageListPb(MakeSlice(MapSeq(RoutingToProto, rev)))

\* routing.ListToProto
RoutingListToProto(native) ==
    IF ~native.present THEN NilQueuedMessageListPb
    ELSE QueuedMessageListPb(MakeSlice(MapSeq(RoutingToProto, native.Messages.elems)))

\* The error of routing.ListFromProto for the element at Go index i.
MessageIndexMsg(i) == "failed to parse message at index " \o ToString(i) \o ": %w"

RECURSIVE RoutingListFromProtoLoop(_, _, _)
\* The loop of routing.ListFromProto from the element i on, nativeMessages
\* being what the elements before it were converted to.
RoutingListFromProtoLoop(pMsgs, i, nativeMessages) ==
    IF i > Len(pMsgs)
    THEN [list |-> QueuedMessageList(MakeSlice(nativeMessages)), err |-> Nil]
    ELSE With(RoutingFromProto(pMsgs[i]), LAMBDA r :
             IF r.err # Nil
             THEN [list |-> NilQueuedMessageList,
                   err |-> ErrorfW(MessageIndexMsg(i - 1), r.err)]
             ELSE RoutingListFromProtoLoop(pMsgs, i + 1, Append(nativeMessages, r.msg)))

\* routing.ListFromProto returning an empty list for a nil record.
RoutingListFromProtoNilAsEmpty(proto) ==
    RoutingListFromProtoLoop(proto.Messages.elems, 1, <<>>)

\* routing.ListFromProto
RoutingListFromProto(proto) ==
    IF ~proto.present THEN [list |-> NilQueuedMessageList, err |-> Nil]
    ELSE RoutingListFromProtoLoop(proto.Messages.elems, 1, <<>>)

(***************************************************************************)
(* The facade of pkg/notification/v1.  A map is its entries and whether it *)
(* is nil.                                                                 *)
(***************************************************************************)
DeviceToken(token, platform) == [Token |-> token, Platform |-> platform]

DeviceTokenPb(token, platform) ==
    [present |-> TRUE, Token |-> token, Platform |-> platform]

NilDeviceTokenPb == [present |-> FALSE, Token |-> <<>>, Platform |-> <<>>]

NotificationContent(title, body, sound) ==
    [Title |-> title, Body |-> body, Sound |-> sound]

NotificationRequestPbContent(title, body, sound) ==
    [present |-> TRUE, Title |-> title, Body |-> body, Sound |-> sound]

NilNotificationRequestPbContent ==
    [present |-> FALSE, Title |-> <<>>, Body |-> <<>>, Sound |-> <<>>]

NilMap == [isNil |-> TRUE, entries |-> {}]

NotificationRequest(rid, tokens, content, payload) ==
    [present |-> TRUE, RecipientID |-> rid, Tokens |-> tokens,
     Content |-> content, DataPayload |-> payload]

NilNotificationRequest ==
    [present |-> FALSE, RecipientID |-> ZeroURN, Tokens |-> NilSlice,
     Content |-> NotificationContent(<<>>, <<>>, <<>>), DataPayload |-> NilMap]

NotificationRequestPb(rid, tokens, content, payload) ==
    [present |-> TRUE, RecipientId |-> rid, Tokens |-> tokens,
     Content |-> content, DataPayload |-> payload]

NilNotificationRequestPb ==
    [present |-> FALSE, RecipientId |-> <<>>, Tokens |-> NilSlice,
     Content |-> NilNotificationRequestPbContent, DataPayload |-> NilMap]

NotificationRequestToProto(nativeReq) ==
    IF ~nativeReq.present THEN NilNotificationRequestPb
    ELSE LET protoToken(token) == DeviceTokenPb(token.Token, token.Platform)
         IN  NotificationRequestPb(
                 String(nativeReq.RecipientID),
                 MakeSlice(MapSeq(protoToken, nativeReq.Tokens.elems)),
                 NotificationRequestPbContent(nativeReq.Content.Title,
                                              nativeReq.Content.Body,
                                              nativeReq.Content.Sound),
                 nativeReq.DataPayload)

\* NotificationRequestFromProto leaving the sound out of the content.
NotificationRequestFromProtoNoSound(protoReq) ==
    IF ~protoReq.present THEN [req |-> NilNotificationRequest, err |-> Nil]
    ELSE LET p == Parse(protoReq.RecipientId)
             nativeToken(protoToken) ==
                 DeviceToken(protoToken.Token, protoToken.Platform)
         IN  IF p.err # Nil
             THEN [req |-> NilNotificationRequest,
                   err |-> ErrorfW("failed to parse recipient URN: %w", p.err)]
             ELSE [req |-> NotificationRequest(
                               p.urn,
                               MakeSlice(MapSeq(nativeToken, protoReq.Tokens.elems)),
                               NotificationContent(protoReq.Content.Title,
                                                   protoReq.Content.Body,
                                                   <<>>),
                               protoReq.DataPayload),
                   err |-> Nil]

\* The getters of a record read a nil record as one of empty fields.
NotificationRequestFromProto(protoReq) ==
    IF ~protoReq.present THEN [req |-> NilNotificationRequest, err |-> Nil]
    ELSE LET p == Parse(protoReq.RecipientId)
             nativeToken(protoToken) ==
                 DeviceToken(protoToken.Token, protoToken.Platform)
         IN  IF p.err # Nil
             THEN [req |-> NilNotificationRequest,
                   err |-> ErrorfW("failed to parse recipient URN: %w", p.err)]
             ELSE [req |-> NotificationRequest(
                               p.urn,
                               MakeSlice(MapSeq(nativeToken, protoReq.Tokens.elems)),
                               NotificationContent(protoReq.Content.Title,
                                                   protoReq.Content.Body,
                                                   protoReq.Content.Sound),
                               protoReq.DataPayload),
                   err |-> Nil]

(***************************************************************************)
(* The facade of pkg/user/v1.                                              *)
(***************************************************************************)
User(alias, name, email) ==
    [present |-> TRUE, Alias |-> alias, Name |-> name, Email |-> email]

UserPb(alias, name, email) ==
    [present |-> TRUE, Alias |-> alias, Name |-> name, Email |-> email]

NilUserPb == [present |-> FALSE, Alias |-> <<>>, Name |-> <<>>, Email |-> <<>>]

\* user.ToProto
UserToProto(native) ==
    IF ~native.present THEN NilUserPb
    ELSE UserPb(native.Alias, native.Name, native.Email)

(***************************************************************************)
(* JSON documents of the facades.  A document is the value it denotes, not *)
(* its bytes: null, a number, a string, an object of members in order, or  *)
(* an array, whose items are members without a key.                        *)
(***************************************************************************)
JNull == [kind |-> "null", str |-> <<>>, members |-> <<>>]

JNumber == [kind |-> "number", str |-> <<"1">>, members |-> <<>>]

JString(s) == [kind |-> "string", str |-> s, members |-> <<>>]

Member(k, v) == [key |-> k, val |-> v]

JObject(ms) == [kind |-> "object", str |-> <<>>, members |-> ms]

JArray(items) ==
    [kind |-> "array", str |-> <<>>,
     members |-> MapSeq(LAMBDA item : Member("", item), items)]

RECURSIVE Base64(_)
\* The text both JSON encoders write for a []byte that is not empty, in
\* the alphabet of base64.StdEncoding.
Base64(b) ==
    LET Alphabet ==
            <<"A", "B", "C", "D", "E", "F", "G", "H", "I", "J", "K", "L", "M",
              "N", "O", "P", "Q", "R", "S", "T", "U", "V", "W", "X", "Y", "Z",
              "a", "b", "c", "d", "e", "f", "g", "h", "i", "j", "k", "l", "m",
              "n", "o", "p", "q", "r", "s", "t", "u", "v", "w", "x", "y", "z",
              "0", "1", "2", "3", "4", "5", "6", "7", "8", "9", "+", "/">>
        A(n) == Alphabet[n + 1]
    IN  IF b = <<>> THEN <<>>
        ELSE IF Len(b) = 1
        THEN LET n == b[1] * 16
             IN  <<A(n \div 64), A(n % 64), "=", "=">>
        ELSE IF Len(b) = 2
        THEN LET n == (b[1] * 256 + b[2]) * 4
             IN  <<A(n \div 4096), A((n \div 64) % 64), A(n % 64), "=">>
        ELSE LET n == b[1] * 65536 + b[2] * 256 + b[3]
             IN  <<A(n \div 262144), A((n \div 4096) % 64),
                   A((n \div 64) % 64), A(n % 64)>>
                 \o Base64(SubSeq(b, 4, Len(b)))

\* A member for a field that is populated, nothing for one that is not
\* (EmitUnpopulated: false).
Populated(k, populated, v) == IF populated THEN <<Member(k, v)>> ELSE <<>>

\* protojson.Marshal of a SecureEnvelopePb; a nil message is written {}.
protojsonMarshalSecureEnvelopePb(pb) ==
    JObject(Populated("recipientId", pb.RecipientId # <<>>, JString(pb.RecipientId))
         \o Populated("encryptedData", pb.EncryptedData # <<>>,
                      JString(Base64(pb.EncryptedData)))
         \o Populated("encryptedSymmetricKey", pb.EncryptedSymmetricKey # <<>>,
                      JString(Base64(pb.EncryptedSymmetricKey)))
         \o Populated("signature", pb.Signature # <<>>,
                      JString(Base64(pb.Signature))))

\* protojson.Marshal of a QueuedMessagePb.
protojsonMarshalQueuedMessagePb(pb) ==
    JObject(Populated("id", pb.Id # <<>>, JString(pb.Id))
         \o Populated("envelope", pb.Envelope.present,
                      protojsonMarshalSecureEnvelopePb(pb.Envelope)))

\* protojson.Marshal of a SecureEnvelopeListPb.
protojsonMarshalSecureEnvelopeListPb(pb) ==
    JObject(Populated("envelopes", pb.Envelopes.elems # <<>>,
                      JArray(MapSeq(protojsonMarshalSecureEnvelopePb,
                                    pb.Envelopes.elems))))

\* protojson.Marshal of a QueuedMessageListPb.
protojsonMarshalQueuedMessageListPb(pb) ==
    JObject(Populated("messages", pb.Messages.elems # <<>>,
                      JArray(MapSeq(protojsonMarshalQueuedMessagePb,
                                    pb.Messages.elems))))

\* protojson.Marshal of a UserPb.
protojsonMarshalUserPb(pb) ==
    JObject(Populated("alias", pb.Alias # <<>>, JString(pb.Alias))
         \o Populated("name", pb.Name # <<>>, JString(pb.Name))
         \o Populated("email", pb.Email # <<>>, JString(pb.Email)))

\* protojson.Marshal of a NotificationRequestPb; the entries of the map of
\* the model are written in the one order a set of one entry has.
protojsonMarshalNotificationRequestPb(pb) ==
    LET token(t) ==
            JObject(Populated("token", t.Token # <<>>, JString(t.Token))
                 \o Populated("platform", t.Platform # <<>>, JString(t.Platform)))
        content(c) ==
            JObject(Populated("title", c.Title # <<>>, JString(c.Title))
                 \o Populated("body", c.Body # <<>>, JString(c.Body))
                 \o Populated("sound", c.Sound # <<>>, JString(c.Sound)))
        entry == CHOOSE e \in pb.DataPayload.entries : TRUE
    IN  JObject(Populated("recipientId", pb.RecipientId # <<>>, JString(pb.RecipientId))
             \o Populated("tokens", pb.Tokens.elems # <<>>,
                          JArray(MapSeq(token, pb.Tokens.elems)))
             \o Populated("content", pb.Content.present, content(pb.Content))
             \o Populated("dataPayload", pb.DataPayload.entries # {},
                          JObject(<<Member(entry[1], JString(entry[2]))>>)))

\* The error of protojson.Unmarshal for a document that is no object or has
\* a member of the wrong type.
protojsonError == Errorf("proto: syntax error or mismatched type")

\* The member of an object with the key k, null when there is none: a null
\* member leaves the field as it is.
Field(doc, k) ==
    LET at == {i \in 1..Len(doc.members) : doc.members[i].key = k}
    IN  IF at = {} THEN JNull ELSE doc.members[Lowest(at)].val

\* The value can be read into a string field.
IsStringField(v) == v.kind \in {"null", "string"}

\* protojson.Unmarshal into a SecureEnvelopePb, with DiscardUnknown.
protojsonUnmarshalSecureEnvelopePb(doc) ==
    LET rid == Field(doc, "recipientId")
        data == Field(doc, "encryptedData")
        key == Field(doc, "encryptedSymmetricKey")
        sig == Field(doc, "signature")
        \* The value can be read into a bytes field: null or the base64 of bytes.
        IsBytesField(v) ==
            \/ v.kind = "null"
            \/ v.kind = "string" /\ \E b \in ByteStrings : Base64(b) = v.str
        BytesOf(v) ==
            IF v.kind = "null" THEN <<>>
            ELSE CHOOSE b \in ByteStrings : Base64(b) = v.str
    IN  IF \/ doc.kind # "object"
           \/ ~IsStringField(rid)
           \/ ~IsBytesField(data) \/ ~IsBytesField(key) \/ ~IsBytesField(sig)
        THEN [pb |-> NilSecureEnvelopePb, err |-> protojsonError]
        ELSE [pb |-> SecureEnvelopePb(rid.str, BytesOf(data), BytesOf(key), BytesOf(sig)),
              err |-> Nil]

\* protojson.Unmarshal into a QueuedMessagePb.
protojsonUnmarshalQueuedMessagePb(doc) ==
    LET id == Field(doc, "id")
        envelope == Field(doc, "envelope")
    IN  With(protojsonUnmarshalSecureEnvelopePb(envelope), LAMBDA e :
            IF \/ doc.kind # "object"
               \/ ~IsStringField(id)
               \/ envelope.kind # "null" /\ e.err # Nil
            THEN [pb |-> NilQueuedMessagePb, err |-> protojsonError]
            ELSE [pb |-> QueuedMessagePb(id.str, IF envelope.kind = "null"
                                                 THEN NilSecureEnvelopePb ELSE e.pb),
                  err |-> Nil])

\* The items of an array member read one by one with unmarshal(_), which
\* fails when one of them fails; a null member is the nil slice.
UnmarshalItems(v, rs) ==
    IF v.kind = "null" THEN [slice |-> NilSlice, err |-> Nil]
    ELSE IF v.kind # "array" \/ \E i \in 1..Len(rs) : rs[i].err # Nil
    THEN [slice |-> NilSlice, err |-> protojsonError]
    ELSE [slice |-> IF rs = <<>> THEN NilSlice
                    ELSE MakeSlice(MapSeq(LAMBDA r : r.pb, rs)),
          err |-> Nil]

\* protojson.Unmarshal into a SecureEnvelopeListPb.
protojsonUnmarshalSecureEnvelopeListPb(doc) ==
    With(UnmarshalItems(Field(doc, "envelopes"),
                        MapSeq(LAMBDA m : protojsonUnmarshalSecureEnvelopePb(m.val),
                               Field(doc, "envelopes").members)),
         LAMBDA es :
            IF doc.kind # "object" \/ es.err # Nil
            THEN [pb |-> NilSecureEnvelopeListPb, err |-> protojsonError]
            ELSE [pb |-> SecureEnvelopeListPb(es.slice), err |-> Nil])

\* protojson.Unmarshal into a QueuedMessageListPb.
protojsonUnmarshalQueuedMessageListPb(doc) ==
    With(UnmarshalItems(Field(doc, "messages"),
                        MapSeq(LAMBDA m : protojsonUnmarshalQueuedMessagePb(m.val),
                               Field(doc, "messages").members)),
         LAMBDA ms :
            IF doc.kind # "object" \/ ms.err # Nil
            THEN [pb |-> NilQueuedMessageListPb, err |-> protojsonError]
            ELSE [pb |-> QueuedMessageListPb(ms.slice), err |-> Nil])

\* protojson.Unmarshal into a NotificationRequestPb.
protojsonUnmarshalNotificationRequestPb(doc) ==
    LET rid == Field(doc, "recipientId")
        content == Field(doc, "content")
        payload == Field(doc, "dataPayload")
        token(t) ==
            IF \/ t.kind # "object"
               \/ ~IsStringField(Field(t, "token"))
               \/ ~IsStringField(Field(t, "platform"))
            THEN [pb |-> NilDeviceTokenPb, err |-> protojsonError]
            ELSE [pb |-> DeviceTokenPb(Field(t, "token").str, Field(t, "platform").str),
                  err |-> Nil]
        contentOK ==
            \/ content.kind = "null"
            \/ /\ content.kind = "object"
               /\ IsStringField(Field(content, "title"))
               /\ IsStringField(Field(content, "body"))
               /\ IsStringField(Field(content, "sound"))
        payloadOK ==
            \/ payload.kind = "null"
            \/ /\ payload.kind = "object"
               /\ \A i \in 1..Len(payload.members) :
                     payload.members[i].val.kind = "string"
    IN  With(UnmarshalItems(Field(doc, "tokens"),
                            MapSeq(LAMBDA m : token(m.val),
                                   Field(doc, "tokens").members)),
             LAMBDA tokens :
        IF \/ doc.kind # "object"
           \/ ~IsStringField(rid)
           \/ tokens.err # Nil
           \/ ~contentOK
           \/ ~payloadOK
        THEN [pb |-> NilNotificationRequestPb, err |-> protojsonError]
        ELSE [pb |-> NotificationRequestPb(
                         rid.str,
                         tokens.slice,
                         IF content.kind = "null" THEN NilNotificationRequestPbContent
                         ELSE NotificationRequestPbContent(Field(content, "title").str,
                                                           Field(content, "body").str,
                                                           Field(content, "sound").str),
                         IF payload.kind = "null" \/ payload.members = <<>>
                         THEN NilMap
                         ELSE [isNil |-> FALSE,
                               entries |-> {<<payload.members[i].key,
                                              payload.members[i].val.str>> :
                                            i \in 1..Len(payload.members)}]),
              err |-> Nil])

(***************************************************************************)
(* The JSON methods of the facades.                                        *)
(***************************************************************************)
\* (se *SecureEnvelope) MarshalJSON
SecureEnvelopeMarshalJSON(se) == protojsonMarshalSecureEnvelopePb(SecureToProto(se))

\* (sel *SecureEnvelopeList) MarshalJSON
SecureEnvelopeListMarshalJSON(sel) ==
    protojsonMarshalSecureEnvelopeListPb(SecureListToProto(sel))

\* (qm QueuedMessage) MarshalJSON
QueuedMessageMarshalJSON(qm) == protojsonMarshalQueuedMessagePb(RoutingToProto(qm))

\* (qml QueuedMessageList) MarshalJSON
QueuedMessageListMarshalJSON(qml) ==
    protojsonMarshalQueuedMessageListPb(RoutingListToProto(qml))

\* (nr NotificationRequest) MarshalJSON
NotificationRequestMarshalJSON(nr) ==
    protojsonMarshalNotificationRequestPb(NotificationRequestToProto(nr))

\* (u *User) MarshalJSON
UserMarshalJSON(user) == protojsonMarshalUserPb(UserToProto(user))

\* The body the UnmarshalJSON methods share: the record read from data is
\* converted, and the receiver is assigned when neither step fails.  A
\* record that was read is never nil, so neither is what comes of it.
UnmarshalInto(recv, decodeErr, convertErr, native) ==
    IF decodeErr # Nil THEN [recv |-> recv, err |-> decodeErr]
    ELSE IF convertErr # Nil THEN [recv |-> recv, err |-> convertErr]
    ELSE [recv |-> native, err |-> Nil]

\* (se *SecureEnvelope) UnmarshalJSON clearing the receiver before the
\* record is converted.
SecureEnvelopeUnmarshalJSONClears(se, data) ==
    With(protojsonUnmarshalSecureEnvelopePb(data), LAMBDA decoded :
        IF decoded.err # Nil THEN [recv |-> se, err |-> decoded.err]
        ELSE With(SecureFromProto(decoded.pb), LAMBDA r :
                 IF r.err # Nil
                 THEN [recv |-> SecureEnvelope(ZeroURN, <<>>, <<>>, <<>>),
                       err |-> r.err]
                 ELSE [recv |-> r.env, err |-> Nil]))

\* (se *SecureEnvelope) UnmarshalJSON
SecureEnvelopeUnmarshalJSON(se, data) ==
    With(protojsonUnmarshalSecureEnvelopePb(data), LAMBDA decoded :
        With(SecureFromProto(decoded.pb), LAMBDA native :
            UnmarshalInto(se, decoded.err, native.err, native.env)))

\* (sel *SecureEnvelopeList) UnmarshalJSON
SecureEnvelopeListUnmarshalJSON(sel, data) ==
    With(protojsonUnmarshalSecureEnvelopeListPb(data), LAMBDA decoded :
        With(SecureListFromProto(decoded.pb), LAMBDA native :
            UnmarshalInto(sel, decoded.err, native.err, native.list)))

\* (qm *QueuedMessage) UnmarshalJSON
QueuedMessageUnmarshalJSON(qm, data) ==
    With(protojsonUnmarshalQueuedMessagePb(data), LAMBDA decoded :
        With(RoutingFromProto(decoded.pb), LAMBDA native :
            UnmarshalInto(qm, decoded.err, native.err, native.msg)))

\* (qml *QueuedMessageList) UnmarshalJSON
QueuedMessageListUnmarshalJSON(qml, data) ==
    With(protojsonUnmarshalQueuedMessageListPb(data), LAMBDA decoded :
        With(RoutingListFromProto(decoded.pb), LAMBDA native :
            UnmarshalInto(qml, decoded.err, native.err, native.list)))

\* (nr *NotificationRequest) UnmarshalJSON
NotificationRequestUnmarshalJSON(nr, data) ==
    With(protojsonUnmarshalNotificationRequestPb(data), LAMBDA decoded :
        With(NotificationRequestFromProto(decoded.pb), LAMBDA native :
            UnmarshalInto(nr, decoded.err, native.err, native.req)))

(***************************************************************************)
(* json.Marshal of encoding/json on a facade value and on a pointer to it. *)
(***************************************************************************)
FacadeTypes ==
    {"SecureEnvelope", "SecureEnvelopeList", "QueuedMessage", "QueuedMessageList",
     "NotificationRequest", "User"}

\* The receiver each type declares its MarshalJSON with.
MarshalJSONReceiver ==
    [t \in FacadeTypes |->
        IF t \in {"QueuedMessage", "QueuedMessageList", "NotificationRequest"}
        THEN "value" ELSE "pointer"]

\* The document the MarshalJSON method of the type returns.
FacadeMarshalJSON(t, v) ==
    CASE t = "SecureEnvelope" -> SecureEnvelopeMarshalJSON(v)
      [] t = "SecureEnvelopeList" -> SecureEnvelopeListMarshalJSON(v)
      [] t = "QueuedMessage" -> QueuedMessageMarshalJSON(v)
      [] t = "QueuedMessageList" -> QueuedMessageListMarshalJSON(v)
      [] t = "NotificationRequest" -> NotificationRequestMarshalJSON(v)
      [] t = "User" -> UserMarshalJSON(v)

\* What encoding/json writes by reflection for a struct whose MarshalJSON
\* it cannot call: every exported field under its Go name.  The elements of
\* a list are pointers, on which the method can be called.
jsonEncodeStruct(t, v) ==
    LET \* A URN field: URN has MarshalJSON on the value, so it is called.
        URNDocument(x) ==
            IF MarshalJSON(x).data = JSONNull THEN JNull
            ELSE JString(jsonUnmarshalString(MarshalJSON(x).data).s)
        \* A []byte field, the empty one being nil.
        BytesDocument(b) == IF b = <<>> THEN JNull ELSE JString(Base64(b))
    IN
    CASE t = "SecureEnvelope" ->
            JObject(<<Member("RecipientID", URNDocument(v.RecipientID)),
                      Member("EncryptedData", BytesDocument(v.EncryptedData)),
                      Member("EncryptedSymmetricKey",
                             BytesDocument(v.EncryptedSymmetricKey)),
                      Member("Signature", BytesDocument(v.Signature))>>)
      [] t = "SecureEnvelopeList" ->
            LET elem(e) == IF e.present THEN SecureEnvelopeMarshalJSON(e) ELSE JNull
            IN  JObject(<<Member("Envelopes",
                                 IF v.Envelopes.isNil THEN JNull
                                 ELSE JArray(MapSeq(elem, v.Envelopes.elems)))>>)
      [] t = "User" ->
            JObject(<<Member("Alias", JString(v.Alias)),
                      Member("Name", JString(v.Name)),
                      Member("Email", JString(v.Email))>>)

\* json.Marshal(&v) when viaPointer and json.Marshal(v) when not: a method
\* with a pointer receiver is not in the method set of a value.
jsonMarshal(t, v, viaPointer) ==
    IF viaPointer \/ MarshalJSONReceiver[t] = "value"
    THEN FacadeMarshalJSON(t, v)
    ELSE jsonEncodeStruct(t, v)

(***************************************************************************)
(* The values the facades are called with.                                 *)
(***************************************************************************)
\* The longest list.
MaxList == 2

\* Every slice of at most MaxList elements of S, the nil slice among them.
Slices(S) ==
    {NilSlice} \cup {MakeSlice(<<>>)} \cup
    {MakeSlice(es) : es \in UNION {[1..k -> S] : k \in 1..MaxList}}

\* The URNs a caller can hold: the zero value and what New and Parse return.
RecipientURNs ==
    {ZeroURN}
    \cup {New(SecureMessaging, et, id).urn :
            et \in {EntityTypeUser, <<"a", ":", "a">>},
            id \in {<<"a">>, <<"a", ":", "a">>}}
    \cup {Parse(t).urn : t \in {s \in RecipientIds : Parse(s).err = Nil}}

SecureEnvelopes ==
    {NilSecureEnvelope} \cup
    {SecureEnvelope(r, d, k, g) :
        r \in RecipientURNs, d \in ByteStrings, k \in ByteStrings, g \in ByteStrings}

QueuedMessages ==
    {NilQueuedMessage} \cup
    {QueuedMessage(i, e) : i \in MessageIds, e \in SecureEnvelopes}

\* The elements of the lists.
ListEnvelopes ==
    {NilSecureEnvelope} \cup
    {SecureEnvelope(r, <<1, 2, 3>>, <<>>, <<>>) :
        r \in {ZeroURN,
               MkURN(Scheme, SecureMessaging, EntityTypeUser, <<"a">>),
               MkURN(Scheme, SecureMessaging, EntityTypeUser, <<"a", ":", "a">>)}}

ListEnvelopePbs ==
    {NilSecureEnvelopePb} \cup
    {SecureEnvelopePb(r, <<1, 2, 3>>, <<>>, <<>>) :
        r \in {<<>>, <<"a">>,
               JoinWords(<<Scheme, SecureMessaging, EntityTypeUser, <<"a">>>>),
               JoinWords(<<Scheme, Contacts, EntityTypeUser, <<"a">>>>),
               JoinWords(<<Scheme, SecureMessaging, EntityTypeUser>>)}}

SecureEnvelopeLists ==
    {NilSecureEnvelopeList} \cup {SecureEnvelopeList(s) : s \in Slices(ListEnvelopes)}

SecureEnvelopeListPbs ==
    {NilSecureEnvelopeListPb} \cup
    {SecureEnvelopeListPb(s) : s \in Slices(ListEnvelopePbs)}

ListMessages ==
    {NilQueuedMessage} \cup {QueuedMessage(<<"m">>, e) : e \in ListEnvelopes}

ListMessagePbs ==
    {NilQueuedMessagePb} \cup {QueuedMessagePb(<<"m">>, e) : e \in ListEnvelopePbs}

QueuedMessageLists ==
    {NilQueuedMessageList} \cup {QueuedMessageList(s) : s \in Slices(ListMessages)}

QueuedMessageListPbs ==
    {NilQueuedMessageListPb} \cup
    {QueuedMessageListPb(s) : s \in Slices(ListMessagePbs)}

DataPayloads == {NilMap, [isNil |-> FALSE, entries |-> {<<"k", <<"v">>>>}]}

NotificationRequests ==
    LET DeviceTokens ==
            {DeviceToken(<<"t">>, <<"f", "c", "m">>), DeviceToken(<<>>, <<>>)}
        NotificationContents ==
            {NotificationContent(<<>>, <<>>, <<>>),
             NotificationContent(<<"T">>, <<"B">>, <<"S">>)}
    IN  {NilNotificationRequest} \cup
        {NotificationRequest(r, t, c, d) :
            r \in RecipientURNs, t \in Slices(DeviceTokens),
            c \in NotificationContents, d \in DataPayloads}

\* The values of a type json.Marshal is given; none is nil.
FacadeValues(t) ==
    CASE t = "SecureEnvelope" -> SecureEnvelopes \ {NilSecureEnvelope}
      [] t = "SecureEnvelopeList" -> SecureEnvelopeLists \ {NilSecureEnvelopeList}
      [] t = "QueuedMessage" -> QueuedMessages \ {NilQueuedMessage}
      [] t = "QueuedMessageList" -> QueuedMessageLists \ {NilQueuedMessageList}
      [] t = "NotificationRequest" -> NotificationRequests \ {NilNotificationRequest}
      [] t = "User" -> {User(<<>>, <<>>, <<>>), User(<<"a">>, <<>>, <<"e">>)}

NotificationRequestPbs ==
    LET DeviceTokenPbs ==
            {DeviceTokenPb(<<"t">>, <<"f", "c", "m">>), NilDeviceTokenPb}
        NotificationRequestPbContents ==
            {NilNotificationRequestPbContent,
             NotificationRequestPbContent(<<"T">>, <<"B">>, <<"S">>)}
    IN  {NilNotificationRequestPb} \cup
        {NotificationRequestPb(r, t, c, d) :
            r \in RecipientIds, t \in Slices(DeviceTokenPbs),
            c \in NotificationRequestPbContents, d \in DataPayloads}

(***************************************************************************)
(* The state machine.  A caller holds one URN variable u, makes one call   *)
(* at a time and then either assigns the URN returned to u or drops it.    *)
(*   op   the call whose results are at hand, "idle" when there is none    *)
(*   in   the arguments of that call                                       *)
(*   out  the URN it returned                                              *)
(*   err  the error it returned                                            *)
(*   u    the caller's URN variable, the receiver of the methods           *)
(*   res  what the call returned that is neither a URN nor an error        *)
(***************************************************************************)
Init ==
    /\ op = "idle"
    /\ in = NoInput
    /\ out = ZeroURN
    /\ err = Nil
    /\ u = ZeroURN
    /\ res = NoResult

DoNew ==
    /\ op = "idle"
    /\ \E ns \in Words, et \in ArgWords, id \in ArgWords :
         LET r == New(ns, et, id)
         IN  /\ op' = "New"
             /\ in' = [NoInput EXCEPT !.ns = ns, !.et = et, !.id = id]
             /\ out' = r.urn
             /\ err' = r.err
    /\ res' = NoResult
    /\ UNCHANGED u

DoParse ==
    /\ op = "idle"
    /\ \E s \in Texts :
         LET r == Parse(s)
         IN  /\ op' = "Parse"
             /\ in' = [NoInput EXCEPT !.s = s]
             /\ out' = r.urn
             /\ err' = r.err
    /\ res' = NoResult
    /\ UNCHANGED u

DoFromProto ==
    /\ op = "idle"
    /\ \E pb \in {NilPb} \cup {UrnPb(ns, et, id) : ns \in Words, et \in ArgWords, id \in ArgWords} :
         LET r == FromProto(pb)
         IN  /\ op' = "FromProto"
             /\ in' = [NoInput EXCEPT !.ns = pb.Namespace, !.et = pb.EntityType,
                                      !.id = pb.EntityId, !.present = pb.present]
             /\ out' = r.urn
             /\ err' = r.err
    /\ res' = NoResult
    /\ UNCHANGED u

DoUnmarshalJSON ==
    /\ op = "idle"
    /\ \E data \in JSONInputs :
         LET r == UnmarshalJSON(u, data)
         IN  /\ op' = "UnmarshalJSON"
             /\ in' = [NoInput EXCEPT !.s = data, !.recv = u]
             /\ out' = ZeroURN
             /\ err' = r.err
             /\ u' = r.u
    /\ res' = NoResult

\* u.String() normalising the receiver in place.
DoStringInPlace ==
    /\ op = "idle"
    /\ op' = "String"
    /\ in' = [NoInput EXCEPT !.recv = u]
    /\ out' = ZeroURN
    /\ err' = Nil
    /\ res' = String(u)
    /\ u' = IF HasDelim(u.entityID) THEN ZeroURN ELSE u

\* u.String()
DoString ==
    /\ op = "idle"
    /\ op' = "String"
    /\ in' = [NoInput EXCEPT !.recv = u]
    /\ out' = ZeroURN
    /\ err' = Nil
    /\ res' = String(u)
    /\ UNCHANGED u

\* u.MarshalJSON()
DoMarshalJSON ==
    /\ op = "idle"
    /\ op' = "MarshalJSON"
    /\ in' = [NoInput EXCEPT !.recv = u]
    /\ out' = ZeroURN
    /\ err' = MarshalJSON(u).err
    /\ res' = MarshalJSON(u).data
    /\ UNCHANGED u

\* urn.ToProto(u)
DoToProto ==
    /\ op = "idle"
    /\ op' = "ToProto"
    /\ in' = [NoInput EXCEPT !.recv = u]
    /\ out' = ZeroURN
    /\ err' = Nil
    /\ res' = ToProto(u)
    /\ UNCHANGED u

\* routing.FromProto(pb)
DoRoutingFromProto ==
    /\ op = "idle"
    /\ \E pb \in QueuedMessagePbs :
         LET r == RoutingFromProto(pb)
         IN  /\ op' = "routing.FromProto"
             /\ in' = pb
             /\ out' = ZeroURN
             /\ err' = r.err
             /\ res' = r.msg
    /\ UNCHANGED u

\* u, err := urn.New(...): the caller keeps the URN returned.
Keep ==
    /\ op \in {"New", "Parse", "FromProto"}
    /\ op' = "idle"
    /\ in' = NoInput
    /\ out' = ZeroURN
    /\ err' = Nil
    /\ res' = NoResult
    /\ u' = out

\* _, err := urn.New(...): the caller drops the results.
Discard ==
    /\ op # "idle"
    /\ op' = "idle"
    /\ in' = NoInput
    /\ out' = ZeroURN
    /\ err' = Nil
    /\ res' = NoResult
    /\ UNCHANGED u

Next ==
    \/ DoNew
    \/ DoParse
    \/ DoFromProto
    \/ DoUnmarshalJSON
    \/ DoString
    \/ DoMarshalJSON
    \/ DoToProto
    \/ DoRoutingFromProto
    \/ Keep
    \/ Discard

Spec == Init /\ [][Next]_vars

\* The documents given to UnmarshalJSON of a type: what protojson writes
\* for the records, documents that are no object, and objects with a member
\* of the wrong type, with bytes that are no base64, and with a member the
\* record does not have.
Documents(t) ==
    LET NonObjects == {JNull, JNumber, JString(<<"a">>), JArray(<<>>)}
    IN  NonObjects \cup
        CASE t = "SecureEnvelope" ->
                {protojsonMarshalSecureEnvelopePb(pb) : pb \in ListEnvelopePbs}
                \cup {JObject(<<Member("recipientId", JNumber)>>),
                      JObject(<<Member("encryptedData", JString(<<"!">>))>>),
                      JObject(<<Member("unknownField", JNumber),
                                Member("recipientId", JString(<<"b">>))>>)}
          [] t = "QueuedMessage" ->
                {protojsonMarshalQueuedMessagePb(pb) : pb \in ListMessagePbs}
                \cup {JObject(<<Member("envelope", JNumber)>>),
                      JObject(<<Member("id", JString(<<"m">>)),
                                Member("envelope",
                                       JObject(<<Member("recipientId", JNumber)>>))>>)}
          [] t = "SecureEnvelopeList" ->
                {protojsonMarshalSecureEnvelopeListPb(pb) : pb \in SecureEnvelopeListPbs}
                \cup {JObject(<<Member("envelopes", JNumber)>>),
                      JObject(<<Member("envelopes", JArray(<<JNumber>>))>>)}
          [] t = "QueuedMessageList" ->
                {protojsonMarshalQueuedMessageListPb(pb) : pb \in QueuedMessageListPbs}
                \cup {JObject(<<Member("messages", JNumber)>>),
                      JObject(<<Member("messages", JArray(<<JNumber>>))>>)}
          [] t = "NotificationRequest" ->
                {protojsonMarshalNotificationRequestPb(pb) : pb \in NotificationRequestPbs}
                \cup {JObject(<<Member("tokens", JNumber)>>),
                      JObject(<<Member("content", JNumber)>>),
                      JObject(<<Member("dataPayload",
                                       JObject(<<Member("k", JNumber)>>))>>)}

\* The values the receivers of UnmarshalJSON hold before the call.
Receivers(t) ==
    CASE t = "URN" -> RecipientURNs
      [] t = "SecureEnvelope" -> ListEnvelopes \ {NilSecureEnvelope}
      [] t = "QueuedMessage" -> ListMessages \ {NilQueuedMessage}
      [] t = "SecureEnvelopeList" ->
            {SecureEnvelopeList(NilSlice)} \cup
            {SecureEnvelopeList(MakeSlice(<<e>>)) :
                e \in ListEnvelopes \ {NilSecureEnvelope}}
      [] t = "QueuedMessageList" ->
            {QueuedMessageList(NilSlice)} \cup
            {QueuedMessageList(MakeSlice(<<m>>)) :
                m \in ListMessages \ {NilQueuedMessage}}
      [] t = "NotificationRequest" ->
    {NotificationRequest(ZeroURN, NilSlice, NotificationContent(<<>>, <<>>, <<>>), NilMap),
     NotificationRequest(MkURN(Scheme, SecureMessaging, EntityTypeUser, <<"a">>),
                         MakeSlice(<<DeviceToken(<<"t">>, <<"f", "c", "m">>)>>),
                         NotificationContent(<<"T">>, <<"B">>, <<"S">>),
                         NilMap)}

(***************************************************************************)
(* The calls of the facades.  They take and return values and leave the    *)
(* caller's URN alone; in is the argument and res the value returned.      *)
(***************************************************************************)
\* secure.ToProto(native)
DoSecureToProto ==
    /\ op = "idle"
    /\ \E native \in SecureEnvelopes :
         /\ op' = "secure.ToProto"
         /\ in' = native
         /\ out' = ZeroURN
         /\ err' = Nil
         /\ res' = SecureToProto(native)
    /\ UNCHANGED u

\* secure.FromProto(proto)
DoSecureFromProto ==
    /\ op = "idle"
    /\ \E proto \in SecureEnvelopePbs :
         LET r == SecureFromProto(proto)
         IN  /\ op' = "secure.FromProto"
             /\ in' = proto
             /\ out' = ZeroURN
             /\ err' = r.err
             /\ res' = r.env
    /\ UNCHANGED u

\* routing.ToProto(native)
DoRoutingToProto ==
    /\ op = "idle"
    /\ \E native \in QueuedMessages :
         /\ op' = "routing.ToProto"
         /\ in' = native
         /\ out' = ZeroURN
         /\ err' = Nil
         /\ res' = RoutingToProto(native)
    /\ UNCHANGED u

\* secure.ListToProto(native)
DoSecureListToProto ==
    /\ op = "idle"
    /\ \E native \in SecureEnvelopeLists :
         /\ op' = "secure.ListToProto"
         /\ in' = native
         /\ out' = ZeroURN
         /\ err' = Nil
         /\ res' = SecureListToProto(native)
    /\ UNCHANGED u

\* secure.ListFromProto(proto)
DoSecureListFromProto ==
    /\ op = "idle"
    /\ \E proto \in SecureEnvelopeListPbs :
         LET r == SecureListFromProto(proto)
         IN  /\ op' = "secure.ListFromProto"
             /\ in' = proto
             /\ out' = ZeroURN
             /\ err' = r.err
             /\ res' = r.list
    /\ UNCHANGED u

\* routing.ListToProto(native)
DoRoutingListToProto ==
    /\ op = "idle"
    /\ \E native \in QueuedMessageLists :
         /\ op' = "routing.ListToProto"
         /\ in' = native
         /\ out' = ZeroURN
         /\ err' = Nil
         /\ res' = RoutingListToProto(native)
    /\ UNCHANGED u

\* routing.ListFromProto(proto)
DoRoutingListFromProto ==
    /\ op = "idle"
    /\ \E proto \in QueuedMessageListPbs :
         LET r == RoutingListFromProto(proto)
         IN  /\ op' = "routing.ListFromProto"
             /\ in' = proto
             /\ out' = ZeroURN
             /\ err' = r.err
             /\ res' = r.list
    /\ UNCHANGED u

\* notification.NotificationRequestToProto(nativeReq)
DoNotificationRequestToProto ==
    /\ op = "idle"
    /\ \E nativeReq \in NotificationRequests :
         /\ op' = "notification.ToProto"
         /\ in' = nativeReq
         /\ out' = ZeroURN
         /\ err' = Nil
         /\ res' = NotificationRequestToProto(nativeReq)
    /\ UNCHANGED u

\* notification.NotificationRequestFromProto(protoReq)
DoNotificationRequestFromProto ==
    /\ op = "idle"
    /\ \E protoReq \in NotificationRequestPbs :
         LET r == NotificationRequestFromProto(protoReq)
         IN  /\ op' = "notification.FromProto"
             /\ in' = protoReq
             /\ out' = ZeroURN
             /\ err' = r.err
             /\ res' = r.req
    /\ UNCHANGED u

\* json.Marshal(v) for a facade value v
DoJSONMarshalValue ==
    /\ op = "idle"
    /\ \E t \in FacadeTypes : \E v \in FacadeValues(t) :
         /\ op' = "json.Marshal(v)"
         /\ in' = [type |-> t, v |-> v]
         /\ out' = ZeroURN
         /\ err' = Nil
         /\ res' = jsonMarshal(t, v, FALSE)
    /\ UNCHANGED u

\* json.Marshal(&v) for a facade value v
DoJSONMarshalPointer ==
    /\ op = "idle"
    /\ \E t \in FacadeTypes : \E v \in FacadeValues(t) :
         /\ op' = "json.Marshal(&v)"
         /\ in' = [type |-> t, v |-> v]
         /\ out' = ZeroURN
         /\ err' = Nil
         /\ res' = jsonMarshal(t, v, TRUE)
    /\ UNCHANGED u

\* x := recv; x.UnmarshalJSON(data) for a URN of the caller that is not u; res is x after the call
DoURNUnmarshalJSON ==
    /\ op = "idle"
    /\ \E recv \in Receivers("URN"), data \in JSONInputs :
         LET r == UnmarshalJSON(recv, data)
         IN  /\ op' = "URN.UnmarshalJSON"
             /\ in' = [recv |-> recv, data |-> data]
             /\ out' = ZeroURN
             /\ err' = r.err
             /\ res' = r.u
    /\ UNCHANGED u

\* se.UnmarshalJSON(data); res is the receiver after the call
DoSecureEnvelopeUnmarshalJSON ==
    /\ op = "idle"
    /\ \E recv \in Receivers("SecureEnvelope"), data \in Documents("SecureEnvelope") :
         LET r == SecureEnvelopeUnmarshalJSON(recv, data)
         IN  /\ op' = "SecureEnvelope.UnmarshalJSON"
             /\ in' = [recv |-> recv, data |-> data]
             /\ out' = ZeroURN
             /\ err' = r.err
             /\ res' = r.recv
    /\ UNCHANGED u

\* sel.UnmarshalJSON(data)
DoSecureEnvelopeListUnmarshalJSON ==
    /\ op = "idle"
    /\ \E recv \in Receivers("SecureEnvelopeList"), data \in Documents("SecureEnvelopeList") :
         LET r == SecureEnvelopeListUnmarshalJSON(recv, data)
         IN  /\ op' = "SecureEnvelopeList.UnmarshalJSON"
             /\ in' = [recv |-> recv, data |-> data]
             /\ out' = ZeroURN
             /\ err' = r.err
             /\ res' = r.recv
    /\ UNCHANGED u

\* qm.UnmarshalJSON(data)
DoQueuedMessageUnmarshalJSON ==
    /\ op = "idle"
    /\ \E recv \in Receivers("QueuedMessage"), data \in Documents("QueuedMessage") :
         LET r == QueuedMessageUnmarshalJSON(recv, data)
         IN  /\ op' = "QueuedMessage.UnmarshalJSON"
             /\ in' = [recv |-> recv, data |-> data]
             /\ out' = ZeroURN
             /\ err' = r.err
             /\ res' = r.recv
    /\ UNCHANGED u

\* qml.UnmarshalJSON(data)
DoQueuedMessageListUnmarshalJSON ==
    /\ op = "idle"
    /\ \E recv \in Receivers("QueuedMessageList"), data \in Documents("QueuedMessageList") :
         LET r == QueuedMessageListUnmarshalJSON(recv, data)
         IN  /\ op' = "QueuedMessageList.UnmarshalJSON"
             /\ in' = [recv |-> recv, data |-> data]
             /\ out' = ZeroURN
             /\ err' = r.err
             /\ res' = r.recv
    /\ UNCHANGED u

\* nr.UnmarshalJSON(data)
DoNotificationRequestUnmarshalJSON ==
    /\ op = "idle"
    /\ \E recv \in Receivers("NotificationRequest"), data \in Documents("NotificationRequest") :
         LET r == NotificationRequestUnmarshalJSON(recv, data)
         IN  /\ op' = "NotificationRequest.UnmarshalJSON"
             /\ in' = [recv |-> recv, data |-> data]
             /\ out' = ZeroURN
             /\ err' = r.err
             /\ res' = r.recv
    /\ UNCHANGED u

FacadeNext ==
    \/ DoSecureToProto
    \/ DoSecureFromProto
    \/ DoRoutingToProto
    \/ DoRoutingFromProto
    \/ DoSecureListToProto
    \/ DoSecureListFromProto
    \/ DoRoutingListToProto
    \/ DoRoutingListFromProto
    \/ DoNotificationRequestToProto
    \/ DoNotificationRequestFromProto
    \/ DoJSONMarshalValue
    \/ DoJSONMarshalPointer
    \/ DoURNUnmarshalJSON
    \/ DoSecureEnvelopeUnmarshalJSON
    \/ DoSecureEnvelopeListUnmarshalJSON
    \/ DoQueuedMessageUnmarshalJSON
    \/ DoQueuedMessageListUnmarshalJSON
    \/ DoNotificationRequestUnmarshalJSON
    \/ Discard

\* A caller of the facades only.
FacadeSpec == Init /\ [][FacadeNext]_vars

TypeOK ==
    /\ op \in {"idle", "New", "Parse", "FromProto", "UnmarshalJSON", "String",
               "MarshalJSON", "ToProto", "routing.FromProto",
               "secure.ToProto", "secure.FromProto", "routing.ToProto",
               "secure.ListToProto", "secure.ListFromProto",
               "routing.ListToProto", "routing.ListFromProto",
               "notification.ToProto", "notification.FromProto",
               "json.Marshal(v)", "json.Marshal(&v)", "URN.UnmarshalJSON",
               "SecureEnvelope.UnmarshalJSON", "SecureEnvelopeList.UnmarshalJSON",
               "QueuedMessage.UnmarshalJSON", "QueuedMessageList.UnmarshalJSON",
               "NotificationRequest.UnmarshalJSON"}
    /\ err \in Seq(STRING)

(***************************************************************************)
(* Properties.                                                             *)
(***************************************************************************)
\* The number of parts the delimiter cuts s into.
NumParts(s) == 1 + Cardinality({i \in 1..Len(s) : <<s[i]>> = urnDelimiter})

Valid(x) ==
    /\ x.scheme = Scheme
    /\ x.namespace \in AcceptedNamespaces
    /\ x.entityType # <<>>
    /\ x.entityID # <<>>

\* C1: every URN returned by New, Parse or FromProto, and every URN in the
\* receiver of UnmarshalJSON, is the zero value or fully valid: scheme "urn",
\* an accepted namespace, entityType and entityID not empty.
C1_ZeroOrValid ==
    /\ IsZero(out) \/ Valid(out)
    /\ IsZero(u) \/ Valid(u)

C1_Witness == op = "UnmarshalJSON" /\ err = Nil /\ Valid(u)

\* C2 as stated: for every triple New accepts, and every non-zero URN,
\* Parse(x.String()) succeeds and returns x.
C2_RoundTripEveryTriple ==
    \A x \in {out, u} :
        ~IsZero(x) => Parse(String(x)) = [urn |-> x, err |-> Nil]

\* C2: for every non-zero URN x whose entityType and entityID hold no
\* delimiter, Parse(x.String()) succeeds and returns x.
C2_RoundTrip ==
    \A x \in {out, u} :
        (~IsZero(x) /\ ~HasDelim(x.entityType) /\ ~HasDelim(x.entityID))
            => Parse(String(x)) = [urn |-> x, err |-> Nil]

C2_Witness ==
    /\ op = "New"
    /\ err = Nil
    /\ ~HasDelim(in.et) /\ ~HasDelim(in.id)
    /\ in.et # in.id
    /\ Parse(String(out)).urn = out

C4_EveryErrorIsInvalidFormat ==
    (op \in {"New", "Parse"} /\ err # Nil) => ErrorsIs(err, ErrInvalidFormat)

ContactsUserPrefix ==
    Scheme \o urnDelimiter \o Contacts \o urnDelimiter \o EntityTypeUser \o urnDelimiter

\* C5 as stated: New("contacts", "user", id) succeeds for every non-empty id
\* and prints as "urn:contacts:user:" + id, and Parse of that text succeeds
\* with the same text.
C5_ContactsAccepted ==
    /\ (op = "New" /\ in.ns = Contacts /\ in.et = EntityTypeUser /\ in.id # <<>>)
          => (err = Nil /\ String(out) = ContactsUserPrefix \o in.id)
    /\ (/\ op = "Parse"
        /\ Len(in.s) > Len(ContactsUserPrefix)
        /\ SubSeq(in.s, 1, Len(ContactsUserPrefix)) = ContactsUserPrefix)
          => (err = Nil /\ String(out) = in.s)

\* C6: New, Parse and FromProto never return a non-zero URN together with
\* an error.
C6_NoPartialWithError ==
    op \in {"New", "Parse", "FromProto"} =>
        /\ err # Nil => IsZero(out)
        /\ ~IsZero(out) => err = Nil

C6_Witness ==
    /\ op = "FromProto"
    /\ in.present
    /\ err # Nil
    /\ IsZero(out)

\* C7: Parse("") returns the zero URN and no error, and for every URN at
\* hand being zero, printing as "", encoding to null and converting to the
\* nil record are the same thing; String never yields ":::".
C7_ZeroConsistent ==
    /\ (op = "Parse" /\ in.s = <<>>) => (IsZero(out) /\ err = Nil)
    /\ \A x \in {out, u} :
        /\ IsZero(x) <=> String(x) = <<>>
        /\ IsZero(x) <=> MarshalJSON(x).data = JSONNull
        /\ IsZero(x) <=> ToProto(x) = NilPb
        /\ String(x) # <<":", ":", ":">>

C7_Witness ==
    /\ op = "Parse"
    /\ in.s = <<>>
    /\ IsZero(out)
    /\ ~IsZero(u)

\* C8: Parse of a non-empty text with no delimiter returns what
\* New("sm", "user", text) returns, a URN printing as "urn:sm:user:" + text,
\* and no error.
C8_LegacyMigration ==
    (op = "Parse" /\ in.s # <<>> /\ ~HasDelim(in.s)) =>
        /\ err = Nil
        /\ New(SecureMessaging, EntityTypeUser, in.s) = [urn |-> out, err |-> Nil]
        /\ String(out) = Scheme \o urnDelimiter \o SecureMessaging \o urnDelimiter
                             \o EntityTypeUser \o urnDelimiter \o in.s

C8_Witness ==
    /\ op = "Parse"
    /\ in.s = <<"a">>
    /\ out = MkURN(Scheme, SecureMessaging, EntityTypeUser, <<"a">>)

\* C9: Parse of a non-empty text of a number of parts other than 1 or 4
\* returns the zero URN and an error that is ErrInvalidFormat.
C9_WrongPartCount ==
    (op = "Parse" /\ in.s # <<>> /\ NumParts(in.s) \notin {1, urnParts}) =>
        /\ IsZero(out)
        /\ ErrorsIs(err, ErrInvalidFormat)

C9_Witness ==
    /\ op = "Parse"
    /\ NumParts(in.s) > urnParts
    /\ ErrorsIs(err, ErrInvalidFormat)

\* C10: Parse of a text of exactly four parts succeeds exactly when the
\* first part is "urn" and New accepts the other three, and then returns
\* what New returns; the getters give back the three parts.
C10_ParseAgreesWithNew ==
    (op = "Parse" /\ NumParts(in.s) = urnParts) =>
        LET parts == Split(in.s, urnDelimiter)
            n == New(parts[2], parts[3], parts[4])
        IN  /\ err = Nil <=> (parts[1] = Scheme /\ n.err = Nil)
            /\ err = Nil => /\ out = n.urn
                            /\ Namespace(out) = parts[2]
                            /\ EntityType(out) = parts[3]
                            /\ EntityID(out) = parts[4]

C10_Witness ==
    /\ op = "Parse"
    /\ NumParts(in.s) = urnParts
    /\ err = Nil
    /\ ~IsZero(out)

\* C11: String of a non-zero URN is scheme, namespace, entityType and
\* entityID joined by ":" in that order; for a value built by
\* New(ns, et, id) it is "urn:" + ns + ":" + et + ":" + id.
C11_StringOrder ==
    /\ (op = "String" /\ ~IsZero(u)) =>
          res = JoinWords(<<u.scheme, u.namespace, u.entityType, u.entityID>>)
    /\ (op = "New" /\ err = Nil) =>
          String(out) = JoinWords(<<Scheme, in.ns, in.et, in.id>>)

C11_Witness ==
    /\ op = "String"
    /\ ~IsZero(u)
    /\ u.entityType # u.entityID
    /\ res = JoinWords(<<Scheme, u.namespace, u.entityType, u.entityID>>)

EmptyJSONString == <<Quote, Quote>>

\* C13: UnmarshalJSON of null and of the empty JSON string leaves the zero
\* URN in the receiver and returns no error, whatever the receiver held; a
\* document that is neither a string nor null is an error.
C13_UnmarshalNullAndNonString ==
    op = "UnmarshalJSON" =>
        /\ in.s \in {JSONNull, EmptyJSONString} => (err = Nil /\ IsZero(u))
        /\ (in.s # JSONNull /\ ~IsJSONString(in.s)) => err # Nil

C13_Witness ==
    /\ op = "UnmarshalJSON"
    /\ in.s = JSONNull
    /\ ~IsZero(in.recv)
    /\ IsZero(u)
    /\ err = Nil

\* C14: UnmarshalJSON of a non-empty JSON string s returns the error
\* Parse(s) returns, and when there is none the receiver is the URN Parse(s)
\* returns.
C14_UnmarshalIsParse ==
    (op = "UnmarshalJSON" /\ IsJSONString(in.s) /\ in.s # EmptyJSONString) =>
        LET p == Parse(jsonUnmarshalString(in.s).s)
        IN  /\ err = p.err
            /\ err = Nil => u = p.urn

C14_Witness ==
    /\ op = "UnmarshalJSON"
    /\ in.s = jsonMarshalString(<<"a">>)
    /\ err = Nil
    /\ u = MkURN(Scheme, SecureMessaging, EntityTypeUser, <<"a">>)

C16_ToProto ==
    op = "ToProto" =>
        /\ IsZero(u) => res = NilPb
        /\ ~IsZero(u) => /\ res.present
                         /\ res.Namespace = u.namespace
                         /\ res.EntityType = u.entityType
                         /\ res.EntityId = u.entityID
        /\ res.present => /\ res.Namespace # <<>>
                          /\ res.EntityType # <<>>
                          /\ res.EntityId # <<>>
        /\ DOMAIN res = {"present", "Namespace", "EntityType", "EntityId"}

C16_Witness ==
    /\ op = "ToProto"
    /\ ~IsZero(u)
    /\ res.present
    /\ res.EntityType # res.EntityId

\* C17: FromProto(nil) is the zero URN and no error; FromProto of a record
\* succeeds exactly when New of its three fields succeeds and then returns
\* what New returns, and otherwise returns an error that wraps New's.
C17_FromProto ==
    op = "FromProto" =>
        /\ ~in.present => (IsZero(out) /\ err = Nil)
        /\ in.present =>
              LET n == New(in.ns, in.et, in.id)
              IN  /\ err = Nil <=> n.err = Nil
                  /\ err = Nil => out = n.urn
                  /\ n.err # Nil => (ErrorsIs(err, n.err) /\ err # n.err)

C17_Witness ==
    /\ op = "FromProto"
    /\ in.present
    /\ in.ns = Contacts /\ in.et # <<>> /\ in.id # <<>>
    /\ ErrorsIs(err, New(in.ns, in.et, in.id).err)

\* C18: for every URN x that is zero or was returned by New or Parse,
\* FromProto(ToProto(x)) returns x and no error.
C18_WireSymmetry ==
    op = "ToProto" => FromProto(res) = [urn |-> u, err |-> Nil]

C18_Witness ==
    /\ op = "ToProto"
    /\ HasDelim(u.entityID)
    /\ u.entityType # u.entityID
    /\ FromProto(res).urn = u

\* The calls of the package.
PackageOps ==
    {"New", "Parse", "FromProto", "UnmarshalJSON", "String", "MarshalJSON",
     "ToProto", "routing.FromProto"}

\* C19 as stated: no operation of the package changes the fields of a URN
\* that exists.
C19_NeverMutated ==
    [][op' \in PackageOps => u' = u]_vars

\* C19: no operation of the package but UnmarshalJSON, which overwrites its
\* receiver, changes the fields of a URN that exists.
C19_OnlyUnmarshalJSONMutates ==
    [][op' \in (PackageOps \ {"UnmarshalJSON"}) => u' = u]_vars

C19_Witness ==
    /\ op = "String"
    /\ HasDelim(u.entityID)
    /\ in.recv = u

\* A text Parse takes for a URN as it is: four parts, the scheme, an
\* accepted namespace, and an entity type and ID that are not empty.
IsURNText(t) ==
    /\ NumParts(t) = urnParts
    /\ LET parts == Split(t, urnDelimiter)
       IN  /\ parts[1] = Scheme
           /\ parts[2] \in AcceptedNamespaces
           /\ parts[3] # <<>>
           /\ parts[4] # <<>>

\* C20 as stated: routing.FromProto of a message whose envelope has a
\* recipient id that is not empty and not a URN text, "not-a-valid-urn"
\* among them, returns a nil message and an error that says "failed to
\* parse nested envelope".
C20_InvalidNestedEnvelope ==
    (/\ op = "routing.FromProto"
     /\ in.present
     /\ in.Envelope.present
     /\ in.Envelope.RecipientId # <<>>
     /\ ~IsURNText(in.Envelope.RecipientId)) =>
        /\ ~res.present
        /\ err # Nil
        /\ err[1] = NestedEnvelopeMsg

\* C27 as stated: two URNs returned by New with different (namespace,
\* entityType, entityID) triples never have the same String(), a delimiter
\* inside entityType or entityID included.
C27_StringInjective ==
    (op = "New" /\ err = Nil /\ ~IsZero(u) /\ out # u) => String(out) # String(u)

\* C27: two URNs returned by New with different triples and no delimiter in
\* either entityType never have the same String(), a delimiter inside the
\* entityID included.
C27_StringInjectiveNoDelimInType ==
    (/\ op = "New" /\ err = Nil /\ ~IsZero(u) /\ out # u
     /\ ~HasDelim(out.entityType) /\ ~HasDelim(u.entityType)) =>
        String(out) # String(u)

C27_Witness ==
    /\ op = "New" /\ err = Nil /\ ~IsZero(u) /\ out # u
    /\ ~HasDelim(out.entityType) /\ ~HasDelim(u.entityType)
    /\ HasDelim(out.entityID) /\ HasDelim(u.entityID)
    /\ String(out) # String(u)

\* C28: when Parse(s) succeeds, Parse(Parse(s).String()) succeeds and is
\* Parse(s); a legacy token t and "urn:sm:user:" + t parse to equal values.
C28_ParseIdempotent ==
    (op = "Parse" /\ err = Nil) =>
        /\ Parse(String(out)) = [urn |-> out, err |-> Nil]
        /\ (in.s # <<>> /\ ~HasDelim(in.s)) =>
              Parse(JoinWords(<<Scheme, SecureMessaging, EntityTypeUser, in.s>>))
                  = [urn |-> out, err |-> Nil]

C28_Witness ==
    /\ op = "Parse" /\ err = Nil
    /\ in.s # <<>> /\ ~HasDelim(in.s)
    /\ String(out) # in.s
    /\ Parse(String(out)).urn = out

\* Neither the entity type nor the entity ID of x holds the delimiter.
NoDelim(x) == ~HasDelim(x.entityType) /\ ~HasDelim(x.entityID)

\* C21 as stated: for every SecureEnvelope e whose RecipientID is zero or
\* was returned by New or Parse, secure.FromProto(secure.ToProto(e)) returns
\* no error and an envelope equal to e, and the record's RecipientId is
\* e.RecipientID.String().
C21_EnvelopeRoundTripEveryURN ==
    (op = "secure.ToProto" /\ in.present) =>
        /\ SecureFromProto(res) = [env |-> in, err |-> Nil]
        /\ res.RecipientId = String(in.RecipientID)

\* C21: for every SecureEnvelope e whose RecipientID is zero or was returned
\* by New or Parse and has no delimiter inside its entityType and entityID,
\* secure.FromProto(secure.ToProto(e)) returns no error and an envelope equal
\* to e; the record's RecipientId is e.RecipientID.String() for every e.
C21_EnvelopeRoundTrip ==
    (op = "secure.ToProto" /\ in.present) =>
        /\ NoDelim(in.RecipientID) => SecureFromProto(res) = [env |-> in, err |-> Nil]
        /\ res.RecipientId = String(in.RecipientID)

C21_Witness ==
    /\ op = "secure.ToProto" /\ in.present
    /\ ~IsZero(in.RecipientID) /\ NoDelim(in.RecipientID)
    /\ in.Signature # <<>>
    /\ SecureFromProto(res).env = in

\* The conversions to a record and the conversions from a record.
ToProtoOps ==
    {"secure.ToProto", "routing.ToProto", "notification.ToProto",
     "secure.ListToProto", "routing.ListToProto"}

FromProtoOps ==
    {"secure.FromProto", "routing.FromProto", "notification.FromProto",
     "secure.ListFromProto", "routing.ListFromProto"}

\* C22: ToProto(nil) is nil and FromProto(nil) is nil with no error, for
\* the envelope, the queued message, the notification request and the lists.
C22_AbsentToAbsent ==
    /\ (op \in ToProtoOps /\ ~in.present) => ~res.present
    /\ (op \in FromProtoOps /\ ~in.present) => (~res.present /\ err = Nil)

C22_Witness ==
    /\ op = "routing.ListFromProto"
    /\ in = NilQueuedMessageListPb
    /\ res = NilQueuedMessageList
    /\ err = Nil

\* The elements of the list a list conversion was given, and of its result.
ElemsOf(l) ==
    IF op \in {"secure.ListToProto", "secure.ListFromProto"}
    THEN l.Envelopes.elems ELSE l.Messages.elems

\* The envelope of an element of a list of envelopes or of messages.
EnvelopeOf(e) ==
    IF op \in {"secure.ListToProto", "secure.ListFromProto"} THEN e ELSE e.Envelope

\* C23 as stated: ListToProto returns a list of the same length whose i-th
\* element is ToProto of the i-th input, and for every list whose envelopes
\* have recipient ids returned by New or Parse, ListFromProto(ListToProto(l))
\* returns no error and a list equal to l.
C23_ListRoundTripEveryList ==
    /\ (op = "routing.ListToProto" /\ in.present) =>
          /\ Len(ElemsOf(res)) = Len(ElemsOf(in))
          /\ \A i \in 1..Len(ElemsOf(in)) :
                ElemsOf(res)[i] = RoutingToProto(ElemsOf(in)[i])
          /\ RoutingListFromProto(res) = [list |-> in, err |-> Nil]
    /\ (op = "secure.ListToProto" /\ in.present) =>
          /\ Len(ElemsOf(res)) = Len(ElemsOf(in))
          /\ \A i \in 1..Len(ElemsOf(in)) :
                ElemsOf(res)[i] = SecureToProto(ElemsOf(in)[i])
          /\ SecureListFromProto(res) = [list |-> in, err |-> Nil]

\* The list can come back as it was: its slice is not nil and no recipient
\* id has a delimiter inside its entityType or entityID.
ListComesBack(l) ==
    /\ IF op = "secure.ListToProto" THEN ~l.Envelopes.isNil ELSE ~l.Messages.isNil
    /\ \A i \in 1..Len(ElemsOf(l)) : NoDelim(EnvelopeOf(ElemsOf(l)[i]).RecipientID)

\* C23: ListToProto returns a list of the same length whose i-th element is
\* ToProto of the i-th input, and for every list whose slice is not nil and
\* whose envelopes have recipient ids returned by New or Parse with no
\* delimiter inside entityType and entityID, ListFromProto(ListToProto(l))
\* returns no error and a list equal to l.
C23_ListRoundTrip ==
    /\ (op = "routing.ListToProto" /\ in.present) =>
          /\ Len(ElemsOf(res)) = Len(ElemsOf(in))
          /\ \A i \in 1..Len(ElemsOf(in)) :
                ElemsOf(res)[i] = RoutingToProto(ElemsOf(in)[i])
          /\ ListComesBack(in) =>
                RoutingListFromProto(res) = [list |-> in, err |-> Nil]
    /\ (op = "secure.ListToProto" /\ in.present) =>
          /\ Len(ElemsOf(res)) = Len(ElemsOf(in))
          /\ \A i \in 1..Len(ElemsOf(in)) :
                ElemsOf(res)[i] = SecureToProto(ElemsOf(in)[i])
          /\ ListComesBack(in) =>
                SecureListFromProto(res) = [list |-> in, err |-> Nil]

C23_Witness ==
    /\ op = "routing.ListToProto" /\ in.present
    /\ Len(in.Messages.elems) = 2
    /\ in.Messages.elems[1] # in.Messages.elems[2]
    /\ in.Messages.elems[1].present /\ in.Messages.elems[2].present
    /\ ListComesBack(in)
    /\ RoutingListFromProto(res).list = in

\* C24 as stated: for every NotificationRequest x whose RecipientID is zero
\* or was returned by New or Parse, NotificationRequestFromProto of
\* NotificationRequestToProto(x) returns no error and a request equal to x
\* in every field.
C24_NotificationSymmetryEveryRequest ==
    (op = "notification.ToProto" /\ in.present) =>
        NotificationRequestFromProto(res) = [req |-> in, err |-> Nil]

\* C24: for every NotificationRequest x whose Tokens slice is not nil and
\* whose RecipientID is zero or was returned by New or Parse with no
\* delimiter inside entityType and entityID, NotificationRequestFromProto of
\* NotificationRequestToProto(x) returns no error and a request equal to x
\* in every field.
C24_NotificationSymmetry ==
    (/\ op = "notification.ToProto" /\ in.present
     /\ ~in.Tokens.isNil /\ NoDelim(in.RecipientID)) =>
        NotificationRequestFromProto(res) = [req |-> in, err |-> Nil]

C24_Witness ==
    /\ op = "notification.ToProto" /\ in.present
    /\ ~IsZero(in.RecipientID) /\ NoDelim(in.RecipientID)
    /\ Len(in.Tokens.elems) = 2 /\ in.Tokens.elems[1] # in.Tokens.elems[2]
    /\ in.Content.Sound # <<>> /\ ~in.DataPayload.isNil
    /\ NotificationRequestFromProto(res).req = in

\* C29: when secure.FromProto(p) succeeds for a record p, the RecipientId
\* of secure.ToProto of its result is "" when p.RecipientId is "" and a
\* canonical four-part text otherwise, "urn:sm:user:" + t for a legacy
\* token t; FromProto and ToProto once more change nothing.
C29_EnvelopeNormalised ==
    (op = "secure.FromProto" /\ in.present /\ err = Nil) =>
        LET q == SecureToProto(res)
            again == SecureFromProto(q)
        IN  /\ in.RecipientId = <<>> => q.RecipientId = <<>>
            /\ in.RecipientId # <<>> => IsURNText(q.RecipientId)
            /\ (in.RecipientId # <<>> /\ ~HasDelim(in.RecipientId)) =>
                  q.RecipientId =
                      JoinWords(<<Scheme, SecureMessaging, EntityTypeUser,
                                  in.RecipientId>>)
            /\ again.err = Nil
            /\ SecureToProto(again.env) = q

C29_Witness ==
    /\ op = "secure.FromProto" /\ in.present /\ err = Nil
    /\ in.RecipientId = <<"a">>
    /\ SecureToProto(res).RecipientId # in.RecipientId
    /\ SecureToProto(SecureFromProto(SecureToProto(res)).env) = SecureToProto(res)

\* C30: when FromProto fails for an element, secure.ListFromProto and
\* routing.ListFromProto return a nil list and an error that names the
\* lowest index that fails; when none fails the result has the length and
\* the order of the input.
C30_ListAllOrNothing ==
    /\ (op = "secure.ListFromProto" /\ in.present) =>
          LET elems == in.Envelopes.elems
              failing == {i \in 1..Len(elems) : SecureFromProto(elems[i]).err # Nil}
          IN  /\ failing # {} =>
                    /\ res = NilSecureEnvelopeList
                    /\ err # Nil
                    /\ err[1] = EnvelopeIndexMsg(Lowest(failing) - 1)
              /\ failing = {} =>
                    /\ err = Nil /\ res.present
                    /\ Len(res.Envelopes.elems) = Len(elems)
                    /\ \A i \in 1..Len(elems) :
                          res.Envelopes.elems[i] = SecureFromProto(elems[i]).env
    /\ (op = "routing.ListFromProto" /\ in.present) =>
          LET elems == in.Messages.elems
              failing == {i \in 1..Len(elems) : RoutingFromProto(elems[i]).err # Nil}
          IN  /\ failing # {} =>
                    /\ res = NilQueuedMessageList
                    /\ err # Nil
                    /\ err[1] = MessageIndexMsg(Lowest(failing) - 1)
              /\ failing = {} =>
                    /\ err = Nil /\ res.present
                    /\ Len(res.Messages.elems) = Len(elems)
                    /\ \A i \in 1..Len(elems) :
                          res.Messages.elems[i] = RoutingFromProto(elems[i]).msg

C30_Witness ==
    /\ op = "secure.ListFromProto" /\ in.present
    /\ Len(in.Envelopes.elems) = 2
    /\ SecureFromProto(in.Envelopes.elems[1]).err # Nil
    /\ SecureFromProto(in.Envelopes.elems[2]).err # Nil
    /\ in.Envelopes.elems[1] # in.Envelopes.elems[2]
    /\ res = NilSecureEnvelopeList
    /\ err[1] = EnvelopeIndexMsg(0)

\* C25 as stated: for every facade type, json.Marshal of a value and
\* json.Marshal of a pointer to that value both go through the MarshalJSON
\* of the type and write the same document.
C25_ValueAndPointerSameJSON ==
    op = "json.Marshal(v)" =>
        /\ res = FacadeMarshalJSON(in.type, in.v)
        /\ res = jsonMarshal(in.type, in.v, TRUE)

\* The calls of UnmarshalJSON with the receiver given.
UnmarshalJSONOps ==
    {"URN.UnmarshalJSON", "SecureEnvelope.UnmarshalJSON",
     "SecureEnvelopeList.UnmarshalJSON", "QueuedMessage.UnmarshalJSON",
     "QueuedMessageList.UnmarshalJSON", "NotificationRequest.UnmarshalJSON"}

\* C26: when UnmarshalJSON of a URN, an envelope, a queued message, a
\* notification request or a list returns an error, the receiver is what it
\* was before the call.
C26_ReceiverKeptOnError ==
    (op \in UnmarshalJSONOps /\ err # Nil) => res = in.recv

C26_Witness ==
    /\ op = "SecureEnvelope.UnmarshalJSON"
    /\ in.data.kind = "object"
    /\ err # Nil /\ err[1] = "failed to parse recipient id: %w"
    /\ ~IsZero(in.recv.RecipientID)
    /\ res = in.recv

====
